---- MODULE Spec2Model ----
(***************************************************************************)
(* Test-session state machine and measurement pipeline of the battery      *)
(* depassivation station.                                                  *)
(*                                                                         *)
(* Spec         : the current revision, src/Depassivation-GUI/gui.py with  *)
(*                src/Depassivation-GUI/data_handler.py, serial mode, one  *)
(*                test per session and every kind of received line.        *)
(* SpecRuns     : the same steps over several tests per session and few    *)
(*                inputs.                                                  *)
(* Spec_r1      : the first revision, src/gui.py with src/data_handler.py. *)
(* Spec_history : the history view of the current revision over stored     *)
(*                test histories.                                          *)
(* SpecLive     : one test per session with the live view in use:          *)
(*                LIVE_DATA and BTN_PRESS lines and the load button.       *)
(* SpecBegin    : one test per session with the start callbacks run in     *)
(*                every state.                                             *)
(* Spec_store   : the DataHandler of the current revision called directly  *)
(*                over an empty database.                                  *)
(*                                                                         *)
(* Representation.  Numbers (Python int/float) are integers.  A text that  *)
(* the program splits, searches or concatenates is the sequence of its     *)
(* pieces: a received line is the sequence of its comma-separated fields,  *)
(* a label or result string the sequence of its words.  A nullable SQL     *)
(* column holds NULL (the empty sequence) or Some(v) (the one-element      *)
(* sequence).  Python None for a row id is 0: row ids start at 1 and both  *)
(* None and 0 are falsy.                                                   *)
(***************************************************************************)
EXTENDS Integers, Sequences, FiniteSets, TLC

\* ---------------------------------------------------------------- bounds
MaxTests == 1        \* Spec, SpecLive, SpecBegin: test rows created in a session
MaxSamples == 2      \* Spec: samples accepted into the list of one test
MaxRuns == 2         \* SpecRuns: test rows created in a session
MaxRunSamples == 1   \* SpecRuns, SpecLive, SpecBegin: samples accepted per test
MaxPoints == 2       \* Spec_r1: rows written to the data_points table
MaxHistory == 3      \* Spec_history: test rows of the stored history
MaxStamp == 3        \* Spec_history: latest second a stored test was created

\* ------------------------------------------------------ values and texts
None == 0
NULL == <<>>
Some(v) == <<v>>

BaselineTest == "Baseline Test"
DepassivationCycle == "Depassivation Cycle"
DepassivationCheck == "Depassivation Check"
TestNames == {BaselineTest, DepassivationCycle, DepassivationCheck}
CyclePrefix == "Current Cycle: "
TimestampFormat == "%Y-%m-%d %H:%M:%S"

\* Field texts the device and the operator can produce.  "1e3" is accepted
\* by float() and rejected by int(); "x" is rejected by both.
FloatTexts == {"-1", "0", "1", "2", "3", "10", "180", "1000", "1e3"}
IntTexts == FloatTexts \ {"1e3"}

float_ok(s) == s \in FloatTexts
int_ok(s) == s \in IntTexts

float(s) ==
  CASE s = "-1" -> -1
    [] s = "0" -> 0
    [] s = "1" -> 1
    [] s = "2" -> 2
    [] s = "3" -> 3
    [] s = "10" -> 10
    [] s = "180" -> 180
    [] s = "1000" -> 1000
    [] s = "1e3" -> 1000

int(s) == float(s)

\* datetime.now().strftime(fmt) at wall-clock second t, and its parse back.
strftime(t) == [fmt |-> TimestampFormat, t |-> t]
strptime_ok(ts) == ts.fmt = TimestampFormat
strptime(ts) == ts.t

\* x in s, for a text s kept as the sequence of its words
Contains(s, x) == \E i \in 1..Len(s) : s[i] = x

\* s.replace(x, "")
Replace(s, x) == SelectSeq(s, LAMBDA w : w # x)

\* How a statement run under _get_db_cursor(commit=True) may end.  An
\* sqlite3.Error raised by cursor.execute leaves the with block before the
\* rest of its body runs; one raised by conn.commit comes after the body has
\* run, its return statement included.  Both are logged, rolled back and
\* suppressed.  Where the body returns nothing the two failures look alike
\* and a flag db_ok tells them from success.
Committed == "committed"
ExecuteFailed == "execute failed"
CommitFailed == "commit failed"
DbOutcomes == {Committed, ExecuteFailed, CommitFailed}

\* ------------------------------------------------------------------ state
VARIABLES
  \* DepassivationApp
  is_running, current_test_id, last_completed_test_id, selected_battery_id,
  data_points, min_voltage, max_current, power, resistance,
  \* widgets that carry state
  cycle_label, pass_fail_voltage_var, baseline_duration_var,
  depassivation_duration_var, selected_battery_var,
  baseline_button, depassivation_button, check_button, abort_button,
  \* history view
  history_selection, history_tree, current_history_sequences,
  \* DataHandler and the database
  dh_current_test_id, batteries, tests, db_data_points,
  batteries_seq, tests_seq, data_points_seq,
  \* device channel: the connection is open, the commands the last step sent
  connected, sent,
  \* widgets of the first revision (src/gui.py)
  start_button, duration_var,
  \* how the latest call ended and the message box it showed
  outcome, dialog,
  \* the DataHandler method the latest step called directly
  called,
  \* live view, and the voltages of the readings taken under load since the
  \* load was last switched on
  mosfet_on, live_min_voltage, live_max_current, live_min_resistance,
  live_max_resistance, live_voltages,
  \* receive path: the lines in the serial input buffer, the lines the receive
  \* loop has read, the handle_serial_data callbacks waiting in the event
  \* loop, and the lines handle_serial_data has been run on
  in_waiting, lines_read, after_queue, handled,
  \* simulation mode (src/GUI/Depassivation-GUI/gui.py with
  \* simulation_handler.py): SimulationHandler.is_running, the threads
  \* start() has started, the progress-bar threads start_process has started,
  \* the messages in the log widget and the value of the progress bar
  sim_is_running, sim_threads, progress_threads, log_area, progressbar

accumulators == <<data_points, min_voltage, max_current, power, resistance>>
session == <<is_running, current_test_id, last_completed_test_id>>
entries == <<pass_fail_voltage_var, baseline_duration_var,
             depassivation_duration_var>>
buttons == <<baseline_button, depassivation_button, check_button>>
history == <<history_selection, history_tree, current_history_sequences>>
store == <<dh_current_test_id, batteries, tests, db_data_points, batteries_seq,
           tests_seq, data_points_seq>>

early == <<start_button, duration_var>>
live == <<mosfet_on, live_min_voltage, live_max_current, live_min_resistance,
          live_max_resistance, live_voltages>>

channel == <<in_waiting, lines_read, after_queue, handled>>
background == <<sim_is_running, sim_threads, progress_threads, log_area,
                progressbar>>

vars == <<accumulators, session, selected_battery_id, cycle_label, entries,
          selected_battery_var, buttons, abort_button, history, store,
          connected, sent, early, outcome, dialog, called, live, channel,
          background>>

\* no line has been written, read, scheduled or handled
channel_idle ==
  /\ in_waiting = <<>>
  /\ lines_read = <<>>
  /\ after_queue = <<>>
  /\ handled = <<>>

\* no simulation has been started and nothing has been logged
background_idle ==
  /\ sim_is_running = FALSE
  /\ sim_threads = <<>>
  /\ progress_threads = <<>>
  /\ log_area = {}
  /\ progressbar = 0

\* How a call ends.  outcome is the value the call returned, as Python prints
\* it ("None" for a callback that ran to its end), or the name of the
\* exception that left it; dialog is the message box it showed, "" for none.
Returned == "None"

\* a call of a DataHandler method, its argument as text
Call(method, argument) == [method |-> method, argument |-> argument]
NoCall == Call("", "")

\* a call that leaves the live view alone returns: the commands it
\* transmitted, its outcome and the message box it showed
returns(commands, how, box) ==
  /\ sent' = commands
  /\ outcome' = how
  /\ dialog' = box
  /\ UNCHANGED <<called, live>>

\* a callback other than handle_serial_data ends: it leaves the receive path
\* alone
ends(commands, how, box) ==
  /\ returns(commands, how, box)
  /\ UNCHANGED <<channel, background>>

\* ------------------------------------------------- DataHandler (database)
\* INSERT INTO tests (battery_id, timestamp, duration, pass_fail_voltage)
TestRow(id, battery_id, t, duration, pass_fail_voltage) ==
  [id |-> id, battery_id |-> Some(battery_id), timestamp |-> strftime(t),
   duration |-> Some(duration), pass_fail_voltage |-> pass_fail_voltage,
   min_voltage |-> NULL, max_current |-> NULL, power |-> NULL,
   resistance |-> NULL, result |-> NULL]

\* the UPDATE with its WHERE clause left out: every row is rewritten
update_test_result_without_where(rows, dh_id, mv, mc, p, r, res, db_ok) ==
  IF dh_id = None \/ ~db_ok THEN rows
  ELSE { [row EXCEPT !.min_voltage = Some(mv), !.max_current = Some(mc),
                     !.power = Some(p), !.resistance = Some(r),
                     !.result = Some(res)] : row \in rows }

\* UPDATE tests SET min_voltage = ?, ... WHERE id = dh_current_test_id;
\* no statement is run when the handler has no current test id, and a
\* database error (db_ok = FALSE) is logged and rolled back.
update_test_result(rows, dh_id, mv, mc, p, r, res, db_ok) ==
  IF dh_id = None \/ ~db_ok THEN rows
  ELSE { IF row.id = dh_id
         THEN [row EXCEPT !.min_voltage = Some(mv), !.max_current = Some(mc),
                          !.power = Some(p), !.resistance = Some(r),
                          !.result = Some(res)]
         ELSE row : row \in rows }

\* ORDER BY timestamp: TEXT comparison of the stored timestamps
ts_leq(a, b) == IF a.fmt = b.fmt THEN a.t <= b.t ELSE a.fmt = TimestampFormat

\* the listings a SELECT ... ORDER BY timestamp DESC over the rows S may
\* return: every arrangement of S with non-increasing timestamps
OrderedDesc(S) ==
  { q \in [1..Cardinality(S) -> S] :
      /\ \A i, j \in 1..Cardinality(S) : i # j => q[i] # q[j]
      /\ \A i \in 1..(Cardinality(S) - 1) :
            ts_leq(q[i + 1].timestamp, q[i].timestamp) }

get_tests_for_battery(rows, battery_id) ==
  IF battery_id = None THEN { <<>> }
  ELSE OrderedDesc({ row \in rows : row.battery_id = Some(battery_id) })

get_uncategorized_tests(rows) ==
  OrderedDesc({ row \in rows : row.battery_id = NULL })

\* the rows the last-test query may return for a battery: a newest one
get_last_test_for_battery(rows, battery_id) ==
  { q[1] : q \in { l \in get_tests_for_battery(rows, battery_id) : Len(l) > 0 } }

\* -------------------------------------------------------- history view
Uncategorized == "[Uncategorized Tests]"

\* the type a test is listed under, from its result text
test_type(result_text) ==
  IF Contains(result_text, BaselineTest) THEN "Baseline"
  ELSE IF Contains(result_text, DepassivationCycle) THEN "Depassivation"
  ELSE IF Contains(result_text, DepassivationCheck) THEN "Check"
  ELSE "Unknown"

tests_with_type(listing) ==
  [k \in 1..Len(listing) |->
     LET result_text == IF listing[k].result = NULL THEN <<"Incomplete">>
                        ELSE listing[k].result[1]
     IN [id |-> listing[k].id, timestamp |-> listing[k].timestamp,
         result |-> result_text, duration |-> listing[k].duration,
         type |-> test_type(result_text)]]

\* "<H>h <M>m <S>s" as the program builds it from a number of seconds
time_diff_str(total_seconds) ==
  LET hours == total_seconds \div 3600
      remainder == total_seconds % 3600
      minutes == remainder \div 60
      seconds == remainder % 60
  IN (IF hours > 0 THEN <<ToString(hours), "h ">> ELSE <<>>)
     \o (IF minutes > 0 THEN <<ToString(minutes), "m ">> ELSE <<>>)
     \o <<ToString(seconds), "s">>

Max(a, b) == IF a >= b THEN a ELSE b

\* test2 end to test3 start, clamped at zero
rest_seconds(test2, test3) ==
  Max(0, strptime(test3.timestamp)
           - (strptime(test2.timestamp) + test2.duration[1]))

\* the try block with the start of the Depassivation test taken unparsed
sequence_fails_ignoring_start(test2, test3) ==
  \/ test2.duration = NULL
  \/ ~strptime_ok(test3.timestamp)

\* the try block fails with ValueError or TypeError
sequence_fails(test2, test3) ==
  \/ ~strptime_ok(test2.timestamp)
  \/ test2.duration = NULL
  \/ ~strptime_ok(test3.timestamp)

\* result.split(' - ')[-1]
LastPiece(s) ==
  LET cuts == { i \in 1..Len(s) : s[i] = " - " }
      last == IF cuts = {} THEN 0 ELSE CHOOSE i \in cuts : \A j \in cuts : j <= i
  IN SubSeq(s, last + 1, Len(s))

SequenceItem(test1, test2, test3) ==
  [id |-> test1.id, type |-> "Sequence", timestamp |-> test1.timestamp,
   result |-> <<"Completed - ">> \o LastPiece(test3.result) \o <<" (">>
              \o time_diff_str(rest_seconds(test2, test3)) \o <<" rest)">>,
   tags |-> <<"check">>]

StandaloneItem(test) ==
  [id |-> test.id, type |-> test.type, timestamp |-> test.timestamp,
   result |-> test.result,
   tags |-> IF test.type = "Baseline" THEN <<"baseline">> ELSE <<>>]

SequenceInfo(test1, test2, test3) ==
  [master_id |-> test1.id, baseline |-> test1, depassivation |-> test2,
   check |-> test3,
   rest_time |-> time_diff_str(rest_seconds(test2, test3))]

\* the while loop with the cursor moved by one after a sequence
RECURSIVE group_tests_advancing_by_one(_, _, _, _)
group_tests_advancing_by_one(twt, i, display_items, sequences) ==
  IF i > Len(twt) THEN [display_items |-> display_items, sequences |-> sequences]
  ELSE
    LET is_triple == /\ i <= Len(twt) - 2
                     /\ twt[i].type = "Baseline"
                     /\ twt[i + 1].type = "Depassivation"
                     /\ twt[i + 2].type = "Check"
    IN IF is_triple /\ ~sequence_fails(twt[i + 1], twt[i + 2])
       THEN group_tests_advancing_by_one(twt, i + 1,
              Append(display_items, SequenceItem(twt[i], twt[i + 1], twt[i + 2])),
              sequences \cup {SequenceInfo(twt[i], twt[i + 1], twt[i + 2])})
       ELSE group_tests_advancing_by_one(twt, i + 1,
              Append(display_items, StandaloneItem(twt[i])), sequences)

\* the while loop over tests_with_type, from cursor i on (1-based)
RECURSIVE group_tests(_, _, _, _)
group_tests(twt, i, display_items, sequences) ==
  IF i > Len(twt) THEN [display_items |-> display_items, sequences |-> sequences]
  ELSE
    LET is_triple == /\ i <= Len(twt) - 2
                     /\ twt[i].type = "Baseline"
                     /\ twt[i + 1].type = "Depassivation"
                     /\ twt[i + 2].type = "Check"
    IN IF is_triple /\ ~sequence_fails(twt[i + 1], twt[i + 2])
       THEN group_tests(twt, i + 3,
              Append(display_items, SequenceItem(twt[i], twt[i + 1], twt[i + 2])),
              sequences \cup {SequenceInfo(twt[i], twt[i + 1], twt[i + 2])})
       ELSE group_tests(twt, i + 1,
              Append(display_items, StandaloneItem(twt[i])), sequences)

\* the views on_history_battery_selected may build for the selected entry
\* of the history list, one per listing the query may return.  The tree is
\* emptied first.  get_tests_for_battery and get_uncategorized_tests fetch
\* from a cursor opened without a row factory, so the rows are plain tuples
\* and test['result'] raises TypeError on the first row: the tree stays
\* empty and current_history_sequences is not reset.  Over rows that answer
\* to column names (sqlite3.Row, as get_test_summary fetches) the grouping
\* loop runs.  Both outcomes are kept; raises is how the call ends.
history_views(rows, brows, selected_name, sequences_now) ==
  LET matching == { b \in brows : b.name = selected_name }
      listings ==
        IF selected_name = Uncategorized THEN get_uncategorized_tests(rows)
        ELSE IF matching = {} THEN { <<>> }
        ELSE UNION { get_tests_for_battery(rows, b.id) : b \in matching }
      grouped == { [display_items |-> g.display_items,
                    sequences |-> g.sequences, raises |-> Returned] :
                   g \in { group_tests(tests_with_type(l), 1, <<>>, {}) :
                            l \in listings } }
      raised == IF \E l \in listings : l # <<>>
                THEN { [display_items |-> <<>>, sequences |-> sequences_now,
                        raises |-> "TypeError"] }
                ELSE {}
  IN grouped \cup raised

\* ------------------------------------------------------- received lines
ValidTime == "0"
ValidCurrent == "1"
ValidPower == "1"
ValidResistance == "1"
VoltageTexts == {"0", "1", "2"}

\* well-formed samples, one of them with a reversed current, one line per
\* malformed field, and lines with too few and too many fields
DataLines ==
  { <<"DATA", ValidTime, v, ValidCurrent, ValidPower, ValidResistance>> :
      v \in VoltageTexts }
  \cup { <<"DATA", ValidTime, "2", "-1", ValidPower, ValidResistance>>,
         <<"DATA", "1e3", "2", ValidCurrent, ValidPower, ValidResistance>>,
         <<"DATA", ValidTime, "x", ValidCurrent, ValidPower, ValidResistance>>,
         <<"DATA", ValidTime, "2", "x", ValidPower, ValidResistance>>,
         <<"DATA", ValidTime, "2", ValidCurrent, "x", ValidResistance>>,
         <<"DATA", ValidTime, "2", ValidCurrent, ValidPower, "x">>,
         <<"DATA", ValidTime, "2", ValidCurrent>>,
         <<"DATA", ValidTime, "2", ValidCurrent, ValidPower, ValidResistance, "1">> }
EndLines == { <<"PROCESS_END">>, <<"PROCESS_END: Simulation aborted by user.">> }
OtherLines == { <<"PROCESS_START">>, <<"DATA">> }
Lines == DataLines \cup EndLines \cup OtherLines

\* data.startswith(prefix), for a line kept as its comma-separated fields
startswith(data, prefix) ==
  CASE prefix = "DATA," -> data[1] = "DATA" /\ Len(data) >= 2
    [] prefix = "PROCESS_END" ->
         data[1] \in {"PROCESS_END", "PROCESS_END: Simulation aborted by user.",
                      "PROCESS_END: Simulation completed successfully."}
    [] OTHER -> data[1] = prefix

PassFailTexts == {"1", "2", "x"}
DurationTexts == {"10", "x"}

\* ---------------------------------------------------- DepassivationApp
\* the phase whose button on_battery_selected enables after a last test
\* with this result text
permitted_phase(result_text) ==
  IF Contains(result_text, BaselineTest) THEN DepassivationCycle
  ELSE IF Contains(result_text, DepassivationCycle) THEN DepassivationCheck
  ELSE IF Contains(result_text, DepassivationCheck) THEN BaselineTest
  ELSE BaselineTest

\* what on_battery_selected may compute: the selected battery id and the
\* set of phases whose start button it enables
battery_selection(rows, brows, selected_name, is_ready) ==
  LET matching == { b \in brows : b.name = selected_name }
  IN IF matching # {} /\ is_ready
     THEN LET battery == CHOOSE b \in matching : TRUE
              last_tests == get_last_test_for_battery(rows, battery.id)
          IN IF last_tests = {}
             THEN { [id |-> battery.id, enabled |-> {BaselineTest}] }
             ELSE { [id |-> battery.id,
                     enabled |-> {permitted_phase(
                        IF last_test.result = NULL THEN <<>>
                        ELSE last_test.result[1])}] :
                    last_test \in last_tests }
     ELSE { [id |-> None, enabled |-> {}] }

on_battery_selected(is_ready) ==
  \E sel \in battery_selection(tests, batteries, selected_battery_var, is_ready) :
    /\ selected_battery_id' = sel.id
    /\ baseline_button' = (BaselineTest \in sel.enabled)
    /\ depassivation_button' = (DepassivationCycle \in sel.enabled)
    /\ check_button' = (DepassivationCheck \in sel.enabled)

\* the operator picks an entry of the battery combobox
select_battery(name) ==
  /\ selected_battery_var' = name
  /\ on_battery_selected(connected)
  /\ ends(<<>>, Returned, "")
  /\ UNCHANGED <<accumulators, session, cycle_label, entries, abort_button,
                 history, store, connected, early>>

toggle_connection ==
  /\ IF connected
     THEN /\ connected' = FALSE
          /\ on_battery_selected(FALSE)
          /\ returns(<<>>, Returned, "")
          \* the port is closed with the lines not yet read
          /\ in_waiting' = <<>>
          /\ UNCHANGED <<lines_read, after_queue, handled, background>>
     ELSE \E opened \in BOOLEAN :
            IF opened
            THEN /\ connected' = TRUE
                 /\ on_battery_selected(TRUE)
                 /\ ends(<< <<"SET_MODE", "IDLE">> >>, Returned, "")
            ELSE /\ ends(<<>>, Returned, "")
                 /\ UNCHANGED <<connected, selected_battery_id, buttons>>
  /\ UNCHANGED <<accumulators, session, cycle_label, entries,
                 selected_battery_var, abort_button, history, store, early>>

\* the operator types into the pass/fail voltage entry
edit_pass_fail_voltage(text) ==
  /\ pass_fail_voltage_var' = text
  /\ ends(<<>>, Returned, "")
  /\ UNCHANGED <<accumulators, session, selected_battery_id, cycle_label,
                 baseline_duration_var, depassivation_duration_var,
                 selected_battery_var, buttons, abort_button, history, store,
                 connected, early>>

\* the operator types into the baseline duration entry
edit_baseline_duration(text) ==
  /\ baseline_duration_var' = text
  /\ ends(<<>>, Returned, "")
  /\ UNCHANGED <<accumulators, session, selected_battery_id, cycle_label,
                 pass_fail_voltage_var, depassivation_duration_var,
                 selected_battery_var, buttons, abort_button, history, store,
                 connected, early>>

\* datetime.now() as create_new_test may read it: the wall clock, to the
\* second, is not behind any timestamp already stored
clock_readings(rows) ==
  LET latest == IF rows = {} THEN 0
                ELSE CHOOSE t \in { row.timestamp.t : row \in rows } :
                       \A row \in rows : row.timestamp.t <= t
  IN {latest, latest + 1}

\* serial_handler.send: written only on an open connection
send(command) == IF connected THEN <<command>> ELSE <<>>

\* the is_running test left out of the guards
begin_refused_without_running_test(battery_id, running) == battery_id = None

\* the two guards _start_test opens with
begin_refused(battery_id, running) == battery_id = None \/ running

_start_test(test_name, duration) ==
  IF begin_refused(selected_battery_id, is_running)
  THEN /\ ends(<<>>, Returned,
            IF selected_battery_id = None THEN "showerror" ELSE "showwarning")
       /\ UNCHANGED <<accumulators, session, selected_battery_id, cycle_label,
                      entries, selected_battery_var, buttons, abort_button,
                      history, store, connected, early>>
  ELSE
    \* clear_graph_and_stats
    /\ data_points' = <<>>
    /\ min_voltage' = 0
    /\ max_current' = 0
    /\ power' = 0
    /\ resistance' = 0
    /\ last_completed_test_id' = None
    /\ cycle_label' = <<CyclePrefix, test_name>>
    /\ UNCHANGED <<selected_battery_id, entries, selected_battery_var, history,
                   batteries, batteries_seq, db_data_points, data_points_seq,
                   connected, early>>
    /\ IF ~float_ok(pass_fail_voltage_var)
       THEN \* float() raises ValueError out of the handler
            /\ ends(<<>>, "ValueError", "")
            /\ UNCHANGED <<is_running, current_test_id, buttons, abort_button,
                           dh_current_test_id, tests, tests_seq>>
       ELSE
         /\ \E db \in DbOutcomes, t \in clock_readings(tests) :
              \* create_new_test
              CASE db = Committed ->
                   /\ tests' = tests \cup
                           {TestRow(tests_seq + 1, selected_battery_id, t,
                                    duration, float(pass_fail_voltage_var))}
                   /\ tests_seq' = tests_seq + 1
                   /\ dh_current_test_id' = tests_seq + 1
                   /\ current_test_id' = tests_seq + 1
                [] db = CommitFailed ->
                   \* lastrowid was returned, the row is rolled back
                   /\ dh_current_test_id' = tests_seq + 1
                   /\ current_test_id' = tests_seq + 1
                   /\ UNCHANGED <<tests, tests_seq>>
                [] db = ExecuteFailed ->
                   /\ current_test_id' = None
                   /\ UNCHANGED <<tests, tests_seq, dh_current_test_id>>
         /\ is_running' = TRUE
         /\ baseline_button' = FALSE
         /\ depassivation_button' = FALSE
         /\ check_button' = FALSE
         /\ abort_button' = TRUE
         /\ ends(send(<<"START", ToString(duration)>>), Returned, "")

\* a start button runs int() on its duration entry, then _start_test
start_test(test_name, duration_text) ==
  /\ IF int_ok(duration_text)
     THEN _start_test(test_name, int(duration_text))
     ELSE \* int() raises ValueError out of the callback
          /\ ends(<<>>, "ValueError", "")
          /\ UNCHANGED <<accumulators, session, selected_battery_id, cycle_label,
                         entries, selected_battery_var, buttons, abort_button,
                         history, store, connected, early>>

start_baseline_test ==
  /\ baseline_button
  /\ start_test(BaselineTest, baseline_duration_var)

start_depassivation_test ==
  /\ depassivation_button
  /\ start_test(DepassivationCycle, depassivation_duration_var)

start_check_test ==
  /\ check_button
  /\ start_test(DepassivationCheck, baseline_duration_var)

abort_process ==
  /\ abort_button
  /\ IF ~is_running
     THEN /\ ends(<<>>, Returned, "")
          /\ UNCHANGED <<is_running, buttons, abort_button>>
     ELSE /\ is_running' = FALSE
          /\ abort_button' = FALSE
          /\ baseline_button' = (selected_battery_id # None)
          /\ depassivation_button' = (selected_battery_id # None)
          /\ check_button' = (selected_battery_id # None)
          /\ ends(send(<<"ABORT">>), Returned, "")
  /\ UNCHANGED <<accumulators, current_test_id, last_completed_test_id,
                 selected_battery_id, cycle_label, entries,
                 selected_battery_var, history, store, connected, early>>
\* the PROCESS_END status: float() of the entry as it reads now
result_status_of(mv, pass_fail_text) ==
  IF float_ok(pass_fail_text)
  THEN (IF mv >= float(pass_fail_text) THEN "PASS" ELSE "FAIL")
  ELSE "ERROR"

\* the entry of the history list PROCESS_END leaves selected: the battery
\* of the test just completed when the list shows it, else the selection
\* as it was, else the first entry
history_selection_after(rows, brows, last_id, selection) ==
  LET summaries == { row \in rows : row.id = last_id /\ row.battery_id # NULL }
      named == { b \in brows : \E row \in summaries : row.battery_id = Some(b.id) }
      auto == IF last_id # None /\ named # {}
              THEN (CHOOSE b \in named : TRUE).name
              ELSE selection
  IN IF auto = "" THEN Uncategorized ELSE auto

handle_PROCESS_END ==
  /\ is_running' = FALSE
  /\ abort_button' = FALSE
  /\ baseline_button' = (selected_battery_id # None)
  /\ depassivation_button' = (selected_battery_id # None)
  /\ check_button' = (selected_battery_id # None)
  /\ IF current_test_id # None
     THEN LET result_status == result_status_of(min_voltage, pass_fail_voltage_var)
              test_name == Replace(cycle_label, CyclePrefix)
              final_result == test_name \o <<" - ", result_status>>
          IN /\ \E db_ok \in BOOLEAN :
                  tests' = update_test_result(tests, dh_current_test_id,
                             min_voltage, max_current, power, resistance,
                             final_result, db_ok)
             /\ last_completed_test_id' = current_test_id
             /\ current_test_id' = None
     ELSE UNCHANGED <<tests, last_completed_test_id, current_test_id>>
  /\ history_selection' = history_selection_after(tests', batteries,
                             last_completed_test_id', history_selection)
  \* on_history_battery_selected
  /\ \E view \in history_views(tests', batteries, history_selection',
                                current_history_sequences) :
       /\ history_tree' = view.display_items
       /\ current_history_sequences' = view.sequences
       /\ returns(<<>>, view.raises, "")
  /\ UNCHANGED <<accumulators, selected_battery_id, cycle_label, entries,
                 selected_battery_var, dh_current_test_id, batteries, batteries_seq,
                 db_data_points, tests_seq, data_points_seq, connected, early>>

\* the DATA line unpacks into six fields and every field converts
data_parses(data) ==
  /\ Len(data) = 6
  /\ int_ok(data[2])
  /\ float_ok(data[3])
  /\ float_ok(data[4])
  /\ float_ok(data[5])
  /\ float_ok(data[6])

handle_DATA(data) ==
  /\ IF data_parses(data)
     THEN LET time_ms == int(data[2])
              voltage == float(data[3])
              current == float(data[4])
          IN /\ power' = float(data[5])
             /\ resistance' = float(data[6])
             /\ data_points' = Append(data_points,
                                 <<time_ms \div 1000, voltage, current>>)
             /\ max_current' = IF current > max_current THEN current
                               ELSE max_current
             /\ min_voltage' = IF min_voltage = 0 \/ voltage < min_voltage
                               THEN voltage ELSE min_voltage
     ELSE IF /\ Len(data) = 6 /\ int_ok(data[2]) /\ float_ok(data[3])
             /\ float_ok(data[4]) /\ float_ok(data[5])
     THEN \* float(resistance_ohm) raises after self.power was assigned
          /\ power' = float(data[5])
          /\ UNCHANGED <<data_points, min_voltage, max_current, resistance>>
     ELSE UNCHANGED accumulators
  /\ returns(<<>>, Returned, "")
  /\ UNCHANGED <<session, selected_battery_id, cycle_label, entries,
                 selected_battery_var, buttons, abort_button, history, store,
                 connected, early>>

\* a line of no handled kind taken for the end of the test
handle_unrecognized_stops_test ==
  /\ returns(<<>>, Returned, "")
  /\ is_running' = FALSE
  /\ UNCHANGED <<accumulators, current_test_id, last_completed_test_id,
                 selected_battery_id, cycle_label, entries,
                 selected_battery_var, buttons, abort_button, history, store,
                 connected, early>>

\* a line of no handled kind is only logged
handle_unrecognized ==
  /\ returns(<<>>, Returned, "")
  /\ UNCHANGED <<accumulators, session, selected_battery_id, cycle_label,
                 entries, selected_battery_var, buttons, abort_button, history,
                 store, connected, early>>

\* the operator presses the load button of the live view
toggle_mosfet ==
  /\ mosfet_on' = ~mosfet_on
  /\ sent' = send(<<"SET_MOSFET", IF mosfet_on' THEN "1" ELSE "0">>)
  /\ IF mosfet_on'
     THEN /\ live_min_voltage' = 0
          /\ live_max_current' = 0
          /\ live_min_resistance' = 0
          /\ live_max_resistance' = 0
          /\ live_voltages' = {}
     ELSE UNCHANGED <<live_min_voltage, live_max_current,
                      live_min_resistance, live_max_resistance,
                      live_voltages>>
  /\ outcome' = Returned
  /\ dialog' = ""
  /\ UNCHANGED <<channel, background>>
  /\ UNCHANGED <<accumulators, session, selected_battery_id, cycle_label,
                 entries, selected_battery_var, buttons, abort_button, history,
                 store, connected, early, called>>

\* the BTN_PRESS line is unpacked into two fields outside any try block
handle_BTN_PRESS(data) ==
  /\ returns(<<>>, IF Len(data) = 2 THEN Returned ELSE "ValueError", "")
  /\ UNCHANGED <<accumulators, session, selected_battery_id, cycle_label,
                 entries, selected_battery_var, buttons, abort_button, history,
                 store, connected, early>>

\* the LIVE_DATA line unpacks into five fields and the fields the branch
\* converts do convert: the voltage, and under load the other three
live_data_parses(data) ==
  /\ Len(data) = 5
  /\ float_ok(data[2])
  /\ mosfet_on => float_ok(data[3]) /\ float_ok(data[4]) /\ float_ok(data[5])

\* the live reading taken as a sample of the test, at time 0
handle_LIVE_DATA_as_sample(data) == handle_DATA(<<"DATA", "0">> \o Tail(data))

handle_LIVE_DATA(data) ==
  /\ IF live_data_parses(data) /\ mosfet_on
     THEN LET v == float(data[2])
              c == float(data[3])
              r == float(data[5])
          IN /\ live_min_voltage' =
                  IF live_min_voltage = 0 \/ v < live_min_voltage
                  THEN v ELSE live_min_voltage
             /\ live_max_current' =
                  IF c > live_max_current THEN c ELSE live_max_current
             /\ live_min_resistance' =
                  IF r > 0 /\ (live_min_resistance = 0 \/ r < live_min_resistance)
                  THEN r ELSE live_min_resistance
             /\ live_max_resistance' =
                  IF r > 0 /\ r > live_max_resistance
                  THEN r ELSE live_max_resistance
             /\ live_voltages' = live_voltages \cup {v}
     ELSE UNCHANGED <<live_min_voltage, live_max_current,
                      live_min_resistance, live_max_resistance,
                      live_voltages>>
  /\ sent' = <<>>
  /\ outcome' = Returned
  /\ dialog' = ""
  /\ UNCHANGED <<mosfet_on, accumulators, session, selected_battery_id,
                 cycle_label, entries, selected_battery_var, buttons,
                 abort_button, history, store, connected, early, called>>

\* the branch of handle_serial_data a line selects, by the first prefix that
\* matches
dispatch(data) ==
  IF startswith(data, "BTN_PRESS") THEN handle_BTN_PRESS(data)
  ELSE IF startswith(data, "LIVE_DATA") THEN handle_LIVE_DATA(data)
  ELSE IF startswith(data, "PROCESS_END") THEN handle_PROCESS_END
  ELSE IF startswith(data, "DATA,") THEN handle_DATA(data)
  ELSE handle_unrecognized

\* the control thread handles one line read from the device, the receive
\* path left out: any line may arrive while the connection is open
handle_serial_data(data) ==
  /\ connected
  /\ dispatch(data)
  /\ UNCHANGED <<channel, background>>

\* ------------------------------------------------------- specification
\* the application as constructed over a database that holds one battery
Init ==
  /\ is_running = FALSE
  /\ current_test_id = None
  /\ last_completed_test_id = None
  /\ selected_battery_id = None
  /\ data_points = <<>>
  /\ min_voltage = 0
  /\ max_current = 0
  /\ power = 0
  /\ resistance = 0
  /\ cycle_label = <<CyclePrefix, "--">>
  /\ pass_fail_voltage_var = "2"
  /\ baseline_duration_var = "10"
  /\ depassivation_duration_var = "180"
  /\ selected_battery_var = "A"
  /\ baseline_button = FALSE
  /\ depassivation_button = FALSE
  /\ check_button = FALSE
  /\ abort_button = FALSE
  /\ history_selection = ""
  /\ history_tree = <<>>
  /\ current_history_sequences = {}
  /\ dh_current_test_id = None
  /\ batteries = { [id |-> 1, name |-> "A"] }
  /\ batteries_seq = 1
  /\ tests = {}
  /\ db_data_points = {}
  /\ tests_seq = 0
  /\ data_points_seq = 0
  /\ connected = FALSE
  /\ sent = <<>>
  /\ start_button = FALSE
  /\ duration_var = "10"
  /\ outcome = Returned
  /\ dialog = ""
  /\ called = NoCall
  /\ mosfet_on = FALSE
  /\ live_min_voltage = 0
  /\ live_max_current = 0
  /\ live_min_resistance = 0
  /\ live_max_resistance = 0
  /\ live_voltages = {}
  /\ channel_idle
  /\ background_idle

\* the operator's and the device's steps, with at most max_tests test rows
\* and max_samples samples in the list of one test
Steps(max_tests, max_samples, lines, pass_fail_texts, duration_texts) ==
  \/ \E b \in batteries : select_battery(b.name)
  \/ toggle_connection
  \/ \E text \in pass_fail_texts : edit_pass_fail_voltage(text)
  \/ \E text \in duration_texts : edit_baseline_duration(text)
  \/ tests_seq < max_tests /\ start_baseline_test
  \/ tests_seq < max_tests /\ start_depassivation_test
  \/ tests_seq < max_tests /\ start_check_test
  \/ abort_process
  \/ \E data \in lines :
       /\ data_parses(data) => Len(data_points) < max_samples
       /\ handle_serial_data(data)

\* one test, every kind of line
Next == Steps(MaxTests, MaxSamples, Lines, PassFailTexts, DurationTexts)

Spec == Init /\ [][Next]_vars

\* several tests in one session, over few inputs
RunLines == { <<"DATA", ValidTime, "1", ValidCurrent, ValidPower, ValidResistance>>,
              <<"PROCESS_END">> }
RunPassFailTexts == {"2", "x"}
RunDurationTexts == {"10"}

NextRuns ==
  Steps(MaxRuns, MaxRunSamples, RunLines, RunPassFailTexts, RunDurationTexts)

SpecRuns == Init /\ [][NextRuns]_vars

\* one test, with the start callbacks also run while their buttons are
\* disabled: each is called in every state, as a begin the session may or may
\* not accept
NextBegin ==
  \/ Steps(MaxTests, MaxRunSamples, RunLines, RunPassFailTexts, RunDurationTexts)
  \/ \E test_name \in TestNames :
       /\ tests_seq < MaxTests \/ begin_refused(selected_battery_id, is_running)
       /\ start_test(test_name,
                     IF test_name = DepassivationCycle
                     THEN depassivation_duration_var ELSE baseline_duration_var)

SpecBegin == Init /\ [][NextBegin]_vars

\* one test with the live view in use: readings with every field that feeds
\* an extremum varied, one line per malformed field that is converted, lines
\* with too few and too many fields, and button lines of one, two and three
\* fields
LiveLines ==
  { <<"LIVE_DATA", v, c, ValidPower, r>> :
      v \in {"1", "2"}, c \in {"0", "1"}, r \in {"0", "1", "2"} }
  \cup { <<"LIVE_DATA", "0", ValidCurrent, ValidPower, ValidResistance>>,
         <<"LIVE_DATA", "x", ValidCurrent, ValidPower, ValidResistance>>,
         <<"LIVE_DATA", "2", "x", ValidPower, ValidResistance>>,
         <<"LIVE_DATA", "2", ValidCurrent, ValidPower, "x">>,
         <<"LIVE_DATA">>,
         <<"LIVE_DATA", "2", ValidCurrent, ValidPower>>,
         <<"LIVE_DATA", "2", ValidCurrent, ValidPower, ValidResistance, "1">> }
ButtonLines == { <<"BTN_PRESS", "1">>, <<"BTN_PRESS">>, <<"BTN_PRESS", "1", "2">> }
LivePassFailTexts == {"2"}

NextLive ==
  \/ Steps(MaxTests, MaxRunSamples, RunLines \cup LiveLines \cup ButtonLines,
           LivePassFailTexts, RunDurationTexts)
  \/ toggle_mosfet

SpecLive == Init /\ [][NextLive]_vars

\* ---------------------------------------------------------------------
\* The receive path of the current revision: the device writes lines into
\* the serial input buffer, the receive loop of SerialHandler reads them one
\* by one and schedules handle_serial_data for each with root.after(0, ...),
\* and the event loop of the control thread runs the scheduled callbacks.
\* A line on the wire is its fields and its line ending.  The loss of the
\* device ends the receive loop (the SerialException branch finds no
\* handle_disconnect in this revision): from then on no line is read, which
\* the loop taking no further step covers.
\* ---------------------------------------------------------------------
MaxWritten == 3

WireLine(fields, ending) == [fields |-> fields, ending |-> ending]

\* readline().decode().strip(): the line without its ending
strip(wire) == wire.fields

\* the blank line, as it is split into fields
Blank == <<"">>

\* root.after(0, callback, line): the callback joins the end of the queue
root_after_at_front(queue, line) == <<line>> \o queue
root_after(queue, line) == Append(queue, line)

\* a sample, the end of the test, two lines of no handled kind and a blank
\* line
WireLines ==
  { WireLine(fields, "\r\n") :
      fields \in { <<"DATA", ValidTime, "1", ValidCurrent, ValidPower,
                     ValidResistance>>,
                   <<"PROCESS_END">>, <<"PROCESS_START">>, <<"DATA">> } }
  \cup { WireLine(Blank, "\n") }

\* what the control thread owns
control == <<accumulators, session, selected_battery_id, cycle_label, entries,
             selected_battery_var, buttons, abort_button, history, store,
             connected, sent, early, outcome, dialog, called, live>>

\* the device writes one more line
device_writes(wire) ==
  /\ connected
  /\ Len(lines_read) + Len(in_waiting) < MaxWritten
  /\ in_waiting' = Append(in_waiting, wire)
  /\ UNCHANGED <<lines_read, after_queue, handled, control, background>>

\* one turn of the receive loop with a line waiting: the line is read and,
\* unless it is blank, handle_serial_data is scheduled for it
read_from_serial ==
  /\ connected
  /\ in_waiting # <<>>
  /\ LET line == strip(Head(in_waiting)) IN
       /\ in_waiting' = Tail(in_waiting)
       /\ lines_read' = Append(lines_read, line)
       /\ after_queue' = IF line # Blank THEN root_after(after_queue, line)
                         ELSE after_queue
  /\ UNCHANGED <<handled, control, background>>

\* the event loop runs the callback at the head of the queue
run_callback ==
  /\ after_queue # <<>>
  /\ dispatch(Head(after_queue))
  /\ after_queue' = Tail(after_queue)
  /\ handled' = Append(handled, Head(after_queue))
  /\ UNCHANGED <<in_waiting, lines_read, background>>

Next_channel ==
  \/ \E b \in batteries : select_battery(b.name)
  \/ toggle_connection
  \/ tests_seq < MaxTests /\ start_baseline_test
  \/ abort_process
  \/ \E wire \in WireLines : device_writes(wire)
  \/ read_from_serial
  \/ run_callback

Spec_channel == Init /\ [][Next_channel]_vars

\* the event loop does not leave a scheduled callback waiting for ever
Spec_channel_fair == Spec_channel /\ WF_vars(run_callback)

\* ---------------------------------------------------------------------
\* First revision: src/gui.py with src/data_handler.py and
\* src/serial_handler.py.  One start button, no batteries; a sample line has
\* three measurement fields and is written to the data_points table.
\* ---------------------------------------------------------------------
\* INSERT INTO tests (timestamp, duration, pass_fail_voltage)
TestRow_r1(id, t, duration, pass_fail_voltage) ==
  [id |-> id, battery_id |-> NULL, timestamp |-> strftime(t),
   duration |-> Some(duration), pass_fail_voltage |-> pass_fail_voltage,
   min_voltage |-> NULL, max_current |-> NULL, power |-> NULL,
   resistance |-> NULL, result |-> NULL]

\* INSERT INTO data_points under the handler's own current test id
log_data_point(points, seq, dh_id, timestamp_ms, voltage, current, db_ok) ==
  IF dh_id = None \/ ~db_ok THEN points
  ELSE points \cup { [id |-> seq + 1, test_id |-> dh_id,
                      timestamp_ms |-> timestamp_ms, voltage |-> voltage,
                      current |-> current] }

\* UPDATE tests SET min_voltage = ?, result = ? WHERE id = dh_id
update_test_result_r1(rows, dh_id, mv, res, db_ok) ==
  IF dh_id = None \/ ~db_ok THEN rows
  ELSE { IF row.id = dh_id
         THEN [row EXCEPT !.min_voltage = Some(mv), !.result = Some(res)]
         ELSE row : row \in rows }

later == <<max_current, power, resistance, selected_battery_id, cycle_label,
           baseline_duration_var, depassivation_duration_var,
           selected_battery_var, buttons, history, batteries, batteries_seq>>

toggle_connection_r1 ==
  /\ IF connected
     THEN /\ connected' = FALSE
          /\ start_button' = FALSE
     ELSE \E opened \in BOOLEAN :
            IF opened
            THEN /\ connected' = TRUE
                 /\ start_button' = TRUE
            ELSE UNCHANGED <<connected, start_button>>
  /\ ends(<<>>, Returned, "")
  /\ UNCHANGED <<data_points, min_voltage, session, pass_fail_voltage_var,
                 abort_button, dh_current_test_id, tests, db_data_points,
                 tests_seq, data_points_seq, duration_var, later>>

\* the serial thread lost the device and posted handle_disconnect
handle_disconnect_r1 ==
  /\ connected
  /\ connected' = FALSE
  /\ start_button' = FALSE
  /\ abort_button' = FALSE
  /\ is_running' = FALSE
  /\ ends(<<>>, Returned, "")
  /\ UNCHANGED <<data_points, min_voltage, current_test_id,
                 last_completed_test_id, pass_fail_voltage_var,
                 dh_current_test_id, tests, db_data_points, tests_seq,
                 data_points_seq, duration_var, later>>

edit_pass_fail_voltage_r1(text) ==
  /\ pass_fail_voltage_var' = text
  /\ ends(<<>>, Returned, "")
  /\ UNCHANGED <<data_points, min_voltage, session, abort_button,
                 dh_current_test_id, tests, db_data_points, tests_seq,
                 data_points_seq, connected, early, later>>

start_process_r1 ==
  /\ start_button
  /\ UNCHANGED <<pass_fail_voltage_var, db_data_points, data_points_seq,
                 connected, duration_var, later>>
  /\ IF \/ ~connected
        \/ ~int_ok(duration_var) \/ int(duration_var) <= 0
        \/ ~float_ok(pass_fail_voltage_var) \/ float(pass_fail_voltage_var) <= 0
     THEN /\ ends(<<>>, Returned, "")
          /\ UNCHANGED <<data_points, min_voltage, session, abort_button,
                         dh_current_test_id, tests, tests_seq, start_button>>
     ELSE
       \* clear_graph_and_stats
       /\ data_points' = <<>>
       /\ min_voltage' = 0
       /\ last_completed_test_id' = None
       /\ \E db \in DbOutcomes, t \in clock_readings(tests) :
            IF db # ExecuteFailed
            THEN /\ IF db = Committed
                    THEN /\ tests' = tests \cup
                               {TestRow_r1(tests_seq + 1, t, int(duration_var),
                                           float(pass_fail_voltage_var))}
                         /\ tests_seq' = tests_seq + 1
                    ELSE \* lastrowid was returned, the row is rolled back
                         UNCHANGED <<tests, tests_seq>>
                 /\ dh_current_test_id' = tests_seq + 1
                 /\ current_test_id' = tests_seq + 1
                 /\ ends(send(<<"START", ToString(int(duration_var)),
                                   ToString(float(pass_fail_voltage_var))>>),
                         Returned, "")
                 /\ start_button' = FALSE
                 /\ abort_button' = TRUE
                 /\ is_running' = TRUE
            ELSE /\ current_test_id' = None
                 /\ ends(<<>>, Returned, "")
                 /\ UNCHANGED <<tests, tests_seq, dh_current_test_id,
                                start_button, abort_button, is_running>>

abort_process_r1 ==
  /\ abort_button
  /\ IF connected /\ is_running
     THEN /\ ends(send(<<"ABORT">>), Returned, "")
          /\ is_running' = FALSE
          /\ abort_button' = FALSE
          /\ start_button' = TRUE
     ELSE /\ ends(<<>>, Returned, "")
          /\ UNCHANGED <<is_running, abort_button, start_button>>
  /\ UNCHANGED <<data_points, min_voltage, current_test_id,
                 last_completed_test_id, pass_fail_voltage_var,
                 dh_current_test_id, tests, db_data_points, tests_seq,
                 data_points_seq, connected, duration_var, later>>

handle_PROCESS_END_r1 ==
  /\ is_running' = FALSE
  /\ start_button' = TRUE
  /\ abort_button' = FALSE
  /\ IF current_test_id # None
     THEN LET result == IF float_ok(pass_fail_voltage_var)
                        THEN (IF min_voltage >= float(pass_fail_voltage_var)
                              THEN "PASS" ELSE "FAIL")
                        ELSE "N/A"
          IN /\ \E db_ok \in BOOLEAN :
                  tests' = update_test_result_r1(tests, dh_current_test_id,
                             min_voltage, <<result>>, db_ok)
             /\ last_completed_test_id' = current_test_id
             /\ current_test_id' = None
     ELSE UNCHANGED <<tests, last_completed_test_id, current_test_id>>
  /\ returns(<<>>, Returned, "")
  /\ UNCHANGED <<data_points, min_voltage, pass_fail_voltage_var,
                 dh_current_test_id, db_data_points, tests_seq,
                 data_points_seq, connected, duration_var, later>>

\* the DATA line unpacks into four fields and every field converts
data_parses_r1(data) ==
  /\ Len(data) = 4
  /\ float_ok(data[2])
  /\ float_ok(data[3])
  /\ float_ok(data[4])
  /\ int_ok(data[2])

handle_DATA_r1(data) ==
  /\ IF data_parses_r1(data)
     THEN LET voltage == float(data[3])
              current == float(data[4])
          IN /\ \E db_ok \in BOOLEAN :
                  /\ db_data_points' = log_data_point(db_data_points,
                        data_points_seq, dh_current_test_id, int(data[2]),
                        voltage, current, db_ok)
                  /\ data_points_seq' =
                       IF db_data_points' = db_data_points
                       THEN data_points_seq ELSE data_points_seq + 1
             /\ data_points' = Append(data_points,
                                 <<float(data[2]) \div 1000, voltage, current>>)
             /\ min_voltage' = IF min_voltage = 0 \/ voltage < min_voltage
                               THEN voltage ELSE min_voltage
     ELSE UNCHANGED <<db_data_points, data_points_seq, data_points, min_voltage>>
  /\ returns(<<>>, Returned, "")
  /\ UNCHANGED <<session, pass_fail_voltage_var, abort_button,
                 dh_current_test_id, tests, tests_seq, connected, early, later>>

handle_unrecognized_r1 ==
  /\ returns(<<>>, Returned, "")
  /\ UNCHANGED <<data_points, min_voltage, session, pass_fail_voltage_var,
                 abort_button, store, connected, early, later>>

handle_serial_data_r1(data) ==
  /\ connected
  /\ IF startswith(data, "PROCESS_END") THEN handle_PROCESS_END_r1
     ELSE IF startswith(data, "DATA,") THEN handle_DATA_r1(data)
     ELSE handle_unrecognized_r1
  /\ UNCHANGED <<channel, background>>

DataLines_r1 ==
  { <<"DATA", ValidTime, v, ValidCurrent>> : v \in VoltageTexts }
  \cup { <<"DATA", "1e3", "2", ValidCurrent>>,
         <<"DATA", ValidTime, "x", ValidCurrent>>,
         <<"DATA", ValidTime, "2", "x">>,
         <<"DATA", ValidTime, "2">>,
         <<"DATA", ValidTime, "2", ValidCurrent, ValidPower, ValidResistance>> }
Lines_r1 == DataLines_r1 \cup EndLines \cup OtherLines

\* the first revision as constructed over an empty database
Init_r1 ==
  /\ is_running = FALSE
  /\ current_test_id = None
  /\ last_completed_test_id = None
  /\ selected_battery_id = None
  /\ data_points = <<>>
  /\ min_voltage = 0
  /\ max_current = 0
  /\ power = 0
  /\ resistance = 0
  /\ cycle_label = <<CyclePrefix, "--">>
  /\ pass_fail_voltage_var = "2"
  /\ baseline_duration_var = "10"
  /\ depassivation_duration_var = "180"
  /\ selected_battery_var = ""
  /\ baseline_button = FALSE
  /\ depassivation_button = FALSE
  /\ check_button = FALSE
  /\ abort_button = FALSE
  /\ history_selection = ""
  /\ history_tree = <<>>
  /\ current_history_sequences = {}
  /\ dh_current_test_id = None
  /\ batteries = {}
  /\ batteries_seq = 0
  /\ tests = {}
  /\ db_data_points = {}
  /\ tests_seq = 0
  /\ data_points_seq = 0
  /\ connected = FALSE
  /\ sent = <<>>
  /\ start_button = FALSE
  /\ duration_var = "10"
  /\ outcome = Returned
  /\ dialog = ""
  /\ called = NoCall
  /\ mosfet_on = FALSE
  /\ live_min_voltage = 0
  /\ live_max_current = 0
  /\ live_min_resistance = 0
  /\ live_max_resistance = 0
  /\ live_voltages = {}
  /\ channel_idle
  /\ background_idle

Next_r1 ==
  \/ toggle_connection_r1
  \/ handle_disconnect_r1
  \/ \E text \in PassFailTexts : edit_pass_fail_voltage_r1(text)
  \/ tests_seq < MaxTests /\ start_process_r1
  \/ abort_process_r1
  \/ \E data \in Lines_r1 :
       /\ data_parses_r1(data) =>
            Len(data_points) < MaxSamples /\ data_points_seq < MaxPoints
       /\ handle_serial_data_r1(data)

Spec_r1 == Init_r1 /\ [][Next_r1]_vars

\* ---------------------------------------------------------------------
\* The history view of the current revision over a stored test history.
\* ---------------------------------------------------------------------
\* the operator picks an entry of the history list (<<ListboxSelect>>)
select_history_battery(name) ==
  /\ history_selection' = name
  /\ \E view \in history_views(tests, batteries, name, current_history_sequences) :
       /\ history_tree' = view.display_items
       /\ current_history_sequences' = view.sequences
       /\ ends(<<>>, view.raises, "")
  /\ UNCHANGED <<accumulators, session, selected_battery_id, cycle_label,
                 entries, selected_battery_var, buttons, abort_button, store,
                 connected, early>>

HistoryResults ==
  { NULL,
    Some(<<BaselineTest, " - ", "PASS">>),
    Some(<<DepassivationCycle, " - ", "PASS">>),
    Some(<<DepassivationCheck, " - ", "FAIL">>) }
HistoryStamps == 1..MaxStamp
HistoryDurations == {1, 2}

\* a test row as an earlier session left it: finalized, or without result
StoredTest(id, t, duration, result) ==
  [id |-> id, battery_id |-> Some(1), timestamp |-> strftime(t),
   duration |-> Some(duration), pass_fail_voltage |-> 2,
   min_voltage |-> IF result = NULL THEN NULL ELSE Some(1),
   max_current |-> IF result = NULL THEN NULL ELSE Some(1),
   power |-> IF result = NULL THEN NULL ELSE Some(1),
   resistance |-> IF result = NULL THEN NULL ELSE Some(1),
   result |-> result]

\* the histories of n tests: ids in order of creation, so timestamps do
\* not decrease with the id
StoredHistories(n) ==
  { { StoredTest(k, ts[k], d[k], res[k]) : k \in 1..n } :
      ts \in { f \in [1..n -> HistoryStamps] :
                 \A k \in 1..(n - 1) : f[k] <= f[k + 1] },
      d \in [1..n -> HistoryDurations],
      res \in [1..n -> HistoryResults] }

\* histories whose rows the program did not all write itself: a Check, a
\* Depassivation and a Baseline test, created in this order and so listed
\* newest first as Baseline, Depassivation, Check; any of the timestamps may be
\* in a format strptime rejects, and the duration of the Depassivation test is
\* 1, a negative number of seconds (int() of the duration entry accepts a
\* sign) or, written NULL, a value that is no number
ImportedHistories ==
  { { [StoredTest(1, ts[1], 1, Some(<<DepassivationCheck, " - ", "FAIL">>))
         EXCEPT !.timestamp.fmt = fmt[1]],
      [StoredTest(2, ts[2], 1, Some(<<DepassivationCycle, " - ", "PASS">>))
         EXCEPT !.timestamp.fmt = fmt[2], !.duration = d],
      [StoredTest(3, ts[3], 1, Some(<<BaselineTest, " - ", "PASS">>))
         EXCEPT !.timestamp.fmt = fmt[3]] } :
      ts \in { f \in [1..3 -> HistoryStamps] :
                 \A k \in 1..2 : f[k] <= f[k + 1] },
      fmt \in [1..3 -> {TimestampFormat, "%d/%m/%Y %H:%M"}],
      d \in {Some(1), Some(-66), Some(-3606), Some(-3666), NULL} }

\* the application as constructed over a database that holds battery A and
\* a history of its tests
Init_history ==
  /\ is_running = FALSE
  /\ current_test_id = None
  /\ last_completed_test_id = None
  /\ selected_battery_id = None
  /\ data_points = <<>>
  /\ min_voltage = 0
  /\ max_current = 0
  /\ power = 0
  /\ resistance = 0
  /\ cycle_label = <<CyclePrefix, "--">>
  /\ pass_fail_voltage_var = "2"
  /\ baseline_duration_var = "10"
  /\ depassivation_duration_var = "180"
  /\ selected_battery_var = "A"
  /\ baseline_button = FALSE
  /\ depassivation_button = FALSE
  /\ check_button = FALSE
  /\ abort_button = FALSE
  /\ history_selection = ""
  /\ history_tree = <<>>
  /\ current_history_sequences = {}
  /\ dh_current_test_id = None
  /\ batteries = { [id |-> 1, name |-> "A"] }
  /\ batteries_seq = 1
  /\ \E n \in 0..MaxHistory :
       /\ tests \in StoredHistories(n) \cup
                     (IF n = 3 THEN ImportedHistories ELSE {})
       /\ tests_seq = n
  /\ db_data_points = {}
  /\ data_points_seq = 0
  /\ connected = FALSE
  /\ sent = <<>>
  /\ start_button = FALSE
  /\ duration_var = "10"
  /\ outcome = Returned
  /\ dialog = ""
  /\ called = NoCall
  /\ mosfet_on = FALSE
  /\ live_min_voltage = 0
  /\ live_max_current = 0
  /\ live_min_resistance = 0
  /\ live_max_resistance = 0
  /\ live_voltages = {}
  /\ channel_idle
  /\ background_idle

Next_history ==
  \E name \in {Uncategorized} \cup { b.name : b \in batteries } :
    select_history_battery(name)

Spec_history == Init_history /\ [][Next_history]_vars

\* ---------------------------------------------------------------------
\* The DataHandler of the current revision called directly, over a database
\* that _init_database has just created.  Every connection runs
\* PRAGMA foreign_keys = ON, so the foreign keys of the schema are enforced:
\* tests.battery_id ON DELETE SET NULL, data_points.test_id ON DELETE CASCADE.
\* outcome is the value the method returned.
\* ---------------------------------------------------------------------
gui == <<accumulators, session, selected_battery_id, cycle_label, entries,
         selected_battery_var, buttons, abort_button, history, connected,
         early, channel, background>>

True == "True"
False == "False"

\* the name column declared without UNIQUE: no insert is refused
violates_unique_name_never(brows, name) == FALSE

\* batteries.name is declared UNIQUE: the INSERT of a name some row already
\* has raises sqlite3.IntegrityError
violates_unique_name(brows, name) == \E b \in brows : b.name = name

\* INSERT INTO batteries (name, created_at)
DataHandler_create_battery(name) ==
  /\ called' = Call("create_battery", name)
  /\ IF name = ""
     THEN /\ outcome' = Returned
          /\ UNCHANGED store
     ELSE \E db \in DbOutcomes :
            IF violates_unique_name(batteries, name) \/ db = ExecuteFailed
            THEN \* IntegrityError or another sqlite3.Error, suppressed by the
                 \* cursor's context manager: the method falls off its end
                 /\ outcome' = Returned
                 /\ UNCHANGED store
            ELSE /\ outcome' = ToString(batteries_seq + 1)
                 /\ IF db = Committed
                    THEN /\ batteries' = batteries \cup
                               { [id |-> batteries_seq + 1, name |-> name] }
                         /\ batteries_seq' = batteries_seq + 1
                    ELSE UNCHANGED <<batteries, batteries_seq>>
                 /\ UNCHANGED <<dh_current_test_id, tests, db_data_points,
                                tests_seq, data_points_seq>>
  /\ sent' = <<>>
  /\ dialog' = ""
  /\ UNCHANGED <<gui, live>>

\* DELETE FROM batteries WHERE id = ?, with ON DELETE SET NULL on the tests
delete_battery_rows(brows, battery_id) ==
  { b \in brows : b.id # battery_id }

\* the foreign key declared ON DELETE CASCADE instead: the tests go with
\* the battery
set_null_battery_as_cascade(rows, battery_id) ==
  { row \in rows : row.battery_id # Some(battery_id) }

set_null_battery(rows, battery_id) ==
  { IF row.battery_id = Some(battery_id)
    THEN [row EXCEPT !.battery_id = NULL] ELSE row : row \in rows }

DataHandler_delete_battery(battery_id) ==
  /\ called' = Call("delete_battery", ToString(battery_id))
  /\ IF battery_id = None
     THEN /\ outcome' = False
          /\ UNCHANGED store
     ELSE \E db \in DbOutcomes :
            LET rowcount == Cardinality({ b \in batteries : b.id = battery_id })
            IN /\ outcome' = IF db # ExecuteFailed /\ rowcount > 0
                             THEN True ELSE False
               /\ IF db = Committed
                  THEN /\ batteries' = delete_battery_rows(batteries, battery_id)
                       /\ tests' = set_null_battery(tests, battery_id)
                  ELSE UNCHANGED <<batteries, tests>>
               /\ UNCHANGED <<dh_current_test_id, db_data_points, batteries_seq,
                              tests_seq, data_points_seq>>
  /\ sent' = <<>>
  /\ dialog' = ""
  /\ UNCHANGED <<gui, live>>

\* INSERT INTO tests; battery_id REFERENCES batteries (id)
DataHandler_create_new_test(battery_id, duration, pass_fail_voltage) ==
  /\ called' = Call("create_new_test", ToString(battery_id))
  /\ IF battery_id = None
     THEN /\ outcome' = Returned
          /\ UNCHANGED store
     ELSE \E db \in DbOutcomes, t \in clock_readings(tests) :
            IF (\A b \in batteries : b.id # battery_id) \/ db = ExecuteFailed
            THEN /\ outcome' = Returned
                 /\ UNCHANGED store
            ELSE /\ outcome' = ToString(tests_seq + 1)
                 /\ dh_current_test_id' = tests_seq + 1
                 /\ IF db = Committed
                    THEN /\ tests' = tests \cup
                               {TestRow(tests_seq + 1, battery_id, t, duration,
                                        pass_fail_voltage)}
                         /\ tests_seq' = tests_seq + 1
                    ELSE UNCHANGED <<tests, tests_seq>>
                 /\ UNCHANGED <<batteries, batteries_seq, db_data_points,
                                data_points_seq>>
  /\ sent' = <<>>
  /\ dialog' = ""
  /\ UNCHANGED <<gui, live>>

\* INSERT INTO data_points under the handler's current test id; test_id
\* REFERENCES tests (id)
DataHandler_log_data_point(timestamp_ms, voltage, current) ==
  /\ called' = Call("log_data_point", ToString(timestamp_ms))
  /\ \E db_ok \in BOOLEAN :
       IF /\ dh_current_test_id # None
          /\ db_ok
          /\ \E row \in tests : row.id = dh_current_test_id
       THEN /\ db_data_points' = db_data_points \cup
                  { [id |-> data_points_seq + 1, test_id |-> dh_current_test_id,
                     timestamp_ms |-> timestamp_ms, voltage |-> voltage,
                     current |-> current] }
            /\ data_points_seq' = data_points_seq + 1
       ELSE UNCHANGED <<db_data_points, data_points_seq>>
  /\ outcome' = Returned
  /\ sent' = <<>>
  /\ dialog' = ""
  /\ UNCHANGED <<dh_current_test_id, batteries, tests, batteries_seq, tests_seq,
                 gui, live>>

\* the listings a SELECT ... ORDER BY timestamp_ms ASC over the rows S may
\* return: every arrangement of S with non-decreasing timestamps
OrderedAsc_unordered(S) ==
  { q \in [1..Cardinality(S) -> S] :
      \A i, j \in 1..Cardinality(S) : i # j => q[i] # q[j] }
OrderedAsc(S) ==
  { q \in [1..Cardinality(S) -> S] :
      /\ \A i, j \in 1..Cardinality(S) : i # j => q[i] # q[j]
      /\ \A i \in 1..(Cardinality(S) - 1) :
            q[i].timestamp_ms <= q[i + 1].timestamp_ms }

\* SELECT timestamp_ms, voltage, current FROM data_points WHERE test_id = ?
\* ORDER BY timestamp_ms ASC: the listings it may return, each sample as
\* (seconds, voltage, current); the timestamps are whole seconds
get_test_data(points, test_id) ==
  IF test_id = None THEN { <<>> }
  ELSE { [i \in 1..Len(q) |->
            <<q[i].timestamp_ms \div 1000, q[i].voltage, q[i].current>>] :
         q \in OrderedAsc({ p \in points : p.test_id = test_id }) }

\* DELETE FROM tests WHERE id = ?, with ON DELETE CASCADE on the data points
delete_test_rows(rows, test_id) ==
  { row \in rows : row.id # test_id }

delete_test_cascade(points, test_id) ==
  { p \in points : p.test_id # test_id }

DataHandler_delete_test(test_id) ==
  /\ called' = Call("delete_test", ToString(test_id))
  /\ IF test_id = None
     THEN /\ outcome' = False
          /\ UNCHANGED store
     ELSE \E db \in DbOutcomes :
            LET rowcount == Cardinality({ row \in tests : row.id = test_id })
            IN /\ outcome' = IF db # ExecuteFailed /\ rowcount > 0
                             THEN True ELSE False
               /\ IF db = Committed
                  THEN /\ tests' = delete_test_rows(tests, test_id)
                       /\ db_data_points' =
                            delete_test_cascade(db_data_points, test_id)
                  ELSE UNCHANGED <<tests, db_data_points>>
               /\ UNCHANGED <<dh_current_test_id, batteries, batteries_seq,
                              tests_seq, data_points_seq>>
  /\ sent' = <<>>
  /\ dialog' = ""
  /\ UNCHANGED <<gui, live>>

MaxBatteries == 2      \* Spec_store: battery rows created
MaxStoreTests == 2     \* Spec_store: test rows created
MaxStorePoints == 2    \* Spec_store: data point rows created
BatteryNames == {"", "A", "B"}
BatteryIds == 0..MaxBatteries
TestIds == 0..MaxStoreTests

\* the application as constructed over a database without rows
Init_store ==
  /\ is_running = FALSE
  /\ current_test_id = None
  /\ last_completed_test_id = None
  /\ selected_battery_id = None
  /\ data_points = <<>>
  /\ min_voltage = 0
  /\ max_current = 0
  /\ power = 0
  /\ resistance = 0
  /\ cycle_label = <<CyclePrefix, "--">>
  /\ pass_fail_voltage_var = "2"
  /\ baseline_duration_var = "10"
  /\ depassivation_duration_var = "180"
  /\ selected_battery_var = ""
  /\ baseline_button = FALSE
  /\ depassivation_button = FALSE
  /\ check_button = FALSE
  /\ abort_button = FALSE
  /\ history_selection = ""
  /\ history_tree = <<>>
  /\ current_history_sequences = {}
  /\ dh_current_test_id = None
  /\ batteries = {}
  /\ batteries_seq = 0
  /\ tests = {}
  /\ db_data_points = {}
  /\ tests_seq = 0
  /\ data_points_seq = 0
  /\ connected = FALSE
  /\ sent = <<>>
  /\ start_button = FALSE
  /\ duration_var = "10"
  /\ outcome = Returned
  /\ dialog = ""
  /\ called = NoCall
  /\ mosfet_on = FALSE
  /\ live_min_voltage = 0
  /\ live_max_current = 0
  /\ live_min_resistance = 0
  /\ live_max_resistance = 0
  /\ live_voltages = {}
  /\ channel_idle
  /\ background_idle

\* the timestamps of the samples logged, in milliseconds; each sample is
\* logged with the id of its test as its voltage
TimestampsMs == {0, 1000}

Next_store ==
  \/ \E name \in BatteryNames :
       /\ \/ batteries_seq < MaxBatteries
          \/ name = ""
          \/ violates_unique_name(batteries, name)
       /\ DataHandler_create_battery(name)
  \/ \E battery_id \in BatteryIds : DataHandler_delete_battery(battery_id)
  \/ \E battery_id \in BatteryIds :
       tests_seq < MaxStoreTests /\ DataHandler_create_new_test(battery_id, 10, 2)
  \/ \E timestamp_ms \in TimestampsMs :
       /\ data_points_seq < MaxStorePoints
       /\ DataHandler_log_data_point(timestamp_ms, dh_current_test_id, 1)
  \/ \E test_id \in TestIds : DataHandler_delete_test(test_id)

Spec_store == Init_store /\ [][Next_store]_vars

\* ---------------------------------------------------------------------
\* Claims
\* ---------------------------------------------------------------------
\* the last step was abort_process on a running test with the device connected
JustAborted == sent = << <<"ABORT">> >>

RowsOf(test_id) == { row \in tests : row.id = test_id }
PointsOf(test_id) == { point \in db_data_points : point.test_id = test_id }
Voltages == { data_points[i][2] : i \in 1..Len(data_points) }
Finalized(row) == row.result # NULL
StatusOf(row) == LastPiece(row.result[1])

\* C1: while a test is current and running, the running minimum voltage is
\* the least voltage of the samples received since its begin, also when the
\* first sample reads exactly 0.
C1_RunningMinimumIsTrueMinimum ==
  (is_running /\ current_test_id # None /\ data_points # <<>>) =>
     /\ min_voltage \in Voltages
     /\ \A v \in Voltages : min_voltage <= v

\* C2: a step taken right after abort_process ended a running test writes no
\* result and no statistics to the aborted test's row and keeps its samples.
C2_AbortedTestGetsNoResult ==
  [][ (JustAborted /\ current_test_id # None) =>
        /\ \A row \in RowsOf(current_test_id) :
             Finalized(row) \/ row \in tests'
        /\ \A row \in RowsOf(current_test_id) : ~Finalized(row)
        /\ PointsOf(current_test_id) \subseteq db_data_points' ]_vars

\* C3: (first revision) a step right after abort_process that is neither a
\* begin nor a terminal message adds no sample row to any test and leaves
\* the running minimum voltage as it was.
C3_SamplesAfterAbortAreDropped ==
  [][ (JustAborted /\ current_test_id # None
         /\ current_test_id' = current_test_id /\ tests' = tests) =>
        /\ db_data_points' = db_data_points
        /\ min_voltage' = min_voltage ]_vars

\* C4: (first revision) when the session has no current test, no step adds
\* a row to data_points.
C4_NoCurrentTestNoSampleRow ==
  [][ current_test_id = None => db_data_points' = db_data_points ]_vars

\* C5: while a test is current and running, the data_points rows stored under
\* its id are as many as the samples received since its begin.
C5_OneRowPerSample ==
  (is_running /\ current_test_id # None) =>
     Cardinality(PointsOf(current_test_id)) = Len(data_points)

\* C6: a finalized test row says PASS only with min_voltage at or above the
\* pass/fail voltage stored in that row, and FAIL only with min_voltage below.
C6_StatusAgreesWithStoredThreshold ==
  \A row \in tests :
    Finalized(row) =>
      /\ StatusOf(row) = <<"PASS">> => row.min_voltage[1] >= row.pass_fail_voltage
      /\ StatusOf(row) = <<"FAIL">> => row.min_voltage[1] < row.pass_fail_voltage

\* the tests of battery A are, by strictly increasing timestamp, a completed
\* Baseline Test, Depassivation Cycle and Depassivation Check
BaselineDepassivationCheck ==
  /\ Cardinality(tests) = 3
  /\ \E b, d, c \in tests :
       /\ Finalized(b) /\ Contains(b.result[1], BaselineTest)
       /\ Finalized(d) /\ Contains(d.result[1], DepassivationCycle)
       /\ Finalized(c) /\ Contains(c.result[1], DepassivationCheck)
       /\ b.timestamp.t < d.timestamp.t
       /\ d.timestamp.t < c.timestamp.t

\* C7: with battery A selected in the history list and its tests being
\* Baseline, Depassivation, Check in time order, the view shows exactly one
\* item, a Sequence, and one sequence is recorded.
C7_TripleShownAsOneSequence ==
  (history_selection = "A" /\ BaselineDepassivationCheck) =>
     /\ Len(history_tree) = 1
     /\ history_tree[1].type = "Sequence"
     /\ Cardinality(current_history_sequences) = 1

EnabledPhases ==
  (IF baseline_button THEN {BaselineTest} ELSE {})
  \cup (IF depassivation_button THEN {DepassivationCycle} ELSE {})
  \cup (IF check_button THEN {DepassivationCheck} ELSE {})

\* C8: with a battery selected, the device connected and no test running, the
\* start buttons enabled are exactly the one phase the battery's most recent
\* test permits.
C8_OnlyPermittedPhaseEnabled ==
  (selected_battery_id # None /\ connected /\ ~is_running) =>
     \E sel \in battery_selection(tests, batteries, selected_battery_var, TRUE) :
       EnabledPhases = sel.enabled

\* C9: no step changes a test row that has a result.
C9_ResultIsWriteOnce ==
  [][ \A row \in tests : Finalized(row) => row \in tests' ]_vars

\* C9 witness: a test was finalized and a later test of the session was
\* finalized after it.
C9_TwoFinalizedTests ==
  \E first, second \in tests :
    first.id < second.id /\ Finalized(first) /\ Finalized(second)

\* the step handles a DATA line that does not parse
MalformedDataStep ==
  \E data \in DataLines : ~data_parses(data) /\ handle_serial_data(data)

\* C10: handling a DATA line that fails to parse changes neither the
\* accumulators, the in-memory sample list nor the database.
C10_MalformedDataChangesNothing ==
  [][ MalformedDataStep =>
        /\ accumulators' = accumulators
        /\ store' = store ]_vars

\* the step handles a line read from the device
HandlesLine ==
  \E data \in RunLines \cup LiveLines \cup ButtonLines : handle_serial_data(data)

\* C11: handle_serial_data returns normally for every received line, the
\* malformed ones included: no exception leaves the handler.
C11_NoLineFailsTheHandler ==
  [][ HandlesLine => outcome' = Returned ]_vars

\* the step presses a start button while the duration entry it reads or the
\* pass/fail voltage entry holds a text that is not a number
StartsWithNonNumericEntry ==
  \/ /\ start_baseline_test
     /\ ~int_ok(baseline_duration_var) \/ ~float_ok(pass_fail_voltage_var)
  \/ /\ start_depassivation_test
     /\ ~int_ok(depassivation_duration_var) \/ ~float_ok(pass_fail_voltage_var)
  \/ /\ start_check_test
     /\ ~int_ok(baseline_duration_var) \/ ~float_ok(pass_fail_voltage_var)

\* C12: a start with a non-numeric duration or pass/fail voltage creates no
\* test row, transmits no command and leaves the running flag, the current
\* test id, the accumulators and the phase label as they were.
C12_NonNumericStartHasNoEffect ==
  [][ StartsWithNonNumericEntry =>
        /\ tests' = tests
        /\ sent' = <<>>
        /\ is_running' = is_running
        /\ current_test_id' = current_test_id
        /\ accumulators' = accumulators
        /\ cycle_label' = cycle_label ]_vars

\* C13: while the session is running a test is current: the current test id
\* is set and names a row of the tests table.
C13_RunningHasCurrentTest ==
  is_running =>
    /\ current_test_id # None
    /\ \E row \in tests : row.id = current_test_id

\* C14: delete_test of the id of a stored test removes that row and every
\* sample of it, leaves every other test and every other sample as it was
\* and returns True; delete_test of None or of an id no test has returns
\* False and leaves the database as it was.
C14_DeleteTestRemovesTestAndSamples ==
  [][ \A test_id \in TestIds :
        DataHandler_delete_test(test_id) =>
          IF \E row \in tests : row.id = test_id
          THEN /\ \A row \in tests' : row.id # test_id
               /\ get_test_data(db_data_points', test_id) = { <<>> }
               /\ \A row \in tests : row.id # test_id => row \in tests'
               /\ \A p \in db_data_points :
                     p.test_id # test_id => p \in db_data_points'
               /\ outcome' = True
          ELSE /\ outcome' = False
               /\ store' = store ]_vars

\* the tests of a battery
TestsOf(battery_id) == { row \in tests : row.battery_id = Some(battery_id) }

\* the test with this id has no battery in rows: the uncategorized listing
\* returns it and the listing of no battery does
ListedUncategorized(rows, id) ==
  /\ \A l \in get_uncategorized_tests(rows) : \E i \in 1..Len(l) : l[i].id = id
  /\ \A b \in BatteryIds : \A l \in get_tests_for_battery(rows, b) :
        \A i \in 1..Len(l) : l[i].id # id

\* the step is delete_battery of a stored battery
DeletesStoredBattery(battery_id) ==
  /\ \E b \in batteries : b.id = battery_id
  /\ DataHandler_delete_battery(battery_id)

\* C15 as stated: after delete_battery of a battery with N tests all N rows
\* and their samples are still stored, each with a null battery reference,
\* listed as uncategorized and under no battery, and the tests of other
\* batteries are unchanged.
C15_DeleteBatteryLeavesTestsUncategorized ==
  [][ \A battery_id \in BatteryIds :
        DeletesStoredBattery(battery_id) =>
          /\ \A row \in TestsOf(battery_id) :
                /\ [row EXCEPT !.battery_id = NULL] \in tests'
                /\ ListedUncategorized(tests', row.id)
          /\ db_data_points' = db_data_points
          /\ \A row \in tests \ TestsOf(battery_id) : row \in tests' ]_vars

\* C15 amended: delete_battery never destroys a test or a sample and never
\* changes the test of another battery; when it removes the battery row each
\* of the battery's tests is left with a null battery reference, listed as
\* uncategorized and under no battery, and when the battery row stays (the
\* statement or its commit failed) every test is as it was.
C15_DeleteBatteryNeverDestroysTest ==
  [][ \A battery_id \in BatteryIds :
        DeletesStoredBattery(battery_id) =>
          /\ { row.id : row \in tests' } = { row.id : row \in tests }
          /\ db_data_points' = db_data_points
          /\ \A row \in tests \ TestsOf(battery_id) : row \in tests'
          /\ IF \E b \in batteries' : b.id = battery_id
             THEN tests' = tests
             ELSE \A row \in TestsOf(battery_id) :
                    /\ [row EXCEPT !.battery_id = NULL] \in tests'
                    /\ ListedUncategorized(tests', row.id) ]_vars

\* C15 witness: a battery was deleted that had a test with a stored sample,
\* while another battery has a test
C15_OrphanedTestKeepsSample ==
  \E row, other \in tests :
    /\ row.battery_id = NULL
    /\ \E p \in db_data_points : p.test_id = row.id
    /\ other.battery_id # NULL

\* the step is create_battery with the empty name or with a name some
\* stored battery already has
CreatesBatteryWithBadName ==
  \E name \in BatteryNames :
    /\ name = "" \/ \E b \in batteries : b.name = name
    /\ DataHandler_create_battery(name)

\* no two battery rows share a name
UniqueBatteryNames ==
  \A a, b \in batteries : a.name = b.name => a = b

\* C16: create_battery with the empty name or a registered name returns no
\* id and writes no row, and no two stored batteries ever share a name.
C16_BadBatteryNameIsRefused ==
  /\ []UniqueBatteryNames
  /\ [][ CreatesBatteryWithBadName => outcome' = Returned /\ store' = store ]_vars

\* C16 witness: create_battery was called with the name of a stored battery
\* while a second battery is stored, and returned None
C16_DuplicateNameWasRefused ==
  /\ called.method = "create_battery"
  /\ \E b \in batteries : b.name = called.argument
  /\ outcome = Returned
  /\ Cardinality(batteries) = 2

\* the session is armed for a begin: device connected, battery selected, no
\* test running, a numeric pass/fail voltage in its entry
Armed ==
  /\ connected
  /\ selected_battery_id # None
  /\ ~is_running
  /\ float_ok(pass_fail_voltage_var)

\* what an accepted begin with this duration text leaves behind
BeginEffects(duration_text) ==
  /\ \E row \in tests' :
       /\ tests' = tests \cup {row}
       /\ row \notin tests
       /\ row.battery_id = Some(selected_battery_id)
       /\ row.duration = Some(int(duration_text))
       /\ row.pass_fail_voltage = float(pass_fail_voltage_var)
       /\ row.result = NULL /\ row.min_voltage = NULL /\ row.max_current = NULL
       /\ row.power = NULL /\ row.resistance = NULL
       /\ current_test_id' = row.id
  /\ data_points' = <<>>
  /\ min_voltage' = 0 /\ max_current' = 0 /\ power' = 0 /\ resistance' = 0
  /\ sent' = << <<"START", ToString(int(duration_text))>> >>
  /\ is_running'

\* C17: a begin accepted in the armed state creates exactly one test row for
\* the selected battery with the given duration and threshold and no result,
\* resets the accumulators, transmits one START with the duration and leaves
\* the session running with the new row as the current test.
C17_AcceptedBeginCreatesOneTest ==
  [][ /\ (Armed /\ int_ok(baseline_duration_var) /\ start_baseline_test)
           => BeginEffects(baseline_duration_var)
      /\ (Armed /\ int_ok(depassivation_duration_var) /\ start_depassivation_test)
           => BeginEffects(depassivation_duration_var)
      /\ (Armed /\ int_ok(baseline_duration_var) /\ start_check_test)
           => BeginEffects(baseline_duration_var) ]_vars

\* the step is a begin made while a test is running or no battery is selected
BeginsWhileRunningOrWithoutBattery ==
  /\ is_running \/ selected_battery_id = None
  /\ \E test_name \in TestNames :
       \E text \in {baseline_duration_var, depassivation_duration_var} :
         start_test(test_name, text)

\* C18: a begin made while a test is running, or with no battery selected,
\* creates no test row, transmits no command and leaves the running flag, the
\* current test id, the accumulators and the phase label as they were.
C18_BeginRefusedWhileRunningOrWithoutBattery ==
  [][ BeginsWhileRunningOrWithoutBattery =>
        /\ store' = store
        /\ sent' = <<>>
        /\ is_running' = is_running
        /\ current_test_id' = current_test_id
        /\ accumulators' = accumulators
        /\ cycle_label' = cycle_label ]_vars

\* C18 witness: a begin was refused with the warning of a test in progress
\* while the current test has a stored row and a sample in the list
C18_BeginRefusedDuringTest ==
  /\ dialog = "showwarning"
  /\ is_running
  /\ \E row \in tests : row.id = current_test_id
  /\ data_points # <<>>

\* C19: abort_process with no test running transmits nothing and changes no
\* state; with a test running it transmits one ABORT to the connected device,
\* writes nothing to the tests table, and leaves the session not running
\* with no current test.
C19_AbortClearsCurrentTest ==
  [][ abort_process =>
        IF is_running
        THEN /\ connected => sent' = << <<"ABORT">> >>
             /\ tests' = tests
             /\ ~is_running'
             /\ current_test_id' = None
        ELSE /\ sent' = <<>>
             /\ <<accumulators, session, store, buttons, abort_button>>' =
                  <<accumulators, session, store, buttons, abort_button>> ]_vars

\* the step handles a LIVE_DATA line
HandlesLiveData ==
  \E data \in LiveLines : handle_serial_data(data)

\* C20: handling a LIVE_DATA line writes nothing to the database and leaves
\* the running flag, the current test id, the test's minimum voltage,
\* maximum current, power, resistance and sample list as they were.
C20_LiveDataIsDisplayOnly ==
  [][ HandlesLiveData =>
        /\ store' = store
        /\ is_running' = is_running
        /\ current_test_id' = current_test_id
        /\ accumulators' = accumulators ]_vars

\* C20 witness: under load, with a test running that has a sample of 1 V in
\* its list, the live view holds extrema of readings of 2 V and 1 mA
C20_LiveExtremaDuringTest ==
  /\ is_running
  /\ \E row \in tests : row.id = current_test_id
  /\ data_points # <<>>
  /\ min_voltage = 1
  /\ mosfet_on
  /\ live_min_voltage = 2
  /\ live_max_current = 1
  /\ live_max_resistance = 2

\* the event loop runs handle_serial_data on a line that is none of DATA,
\* LIVE_DATA, PROCESS_END and BTN_PRESS
HandlesUnrecognized ==
  /\ after_queue # <<>>
  /\ Head(after_queue) \in OtherLines
  /\ run_callback

\* C21: handling an unrecognized line (PROCESS_START, or DATA without a
\* comma) changes neither the running flag, the current test id, the
\* accumulators nor the database.
C21_UnrecognizedLineChangesNothing ==
  [][ HandlesUnrecognized =>
        /\ is_running' = is_running
        /\ current_test_id' = current_test_id
        /\ accumulators' = accumulators
        /\ store' = store ]_vars

\* C21 witness: PROCESS_START was the latest line handled, after a sample of
\* the running test
C21_ProcessStartHandledDuringTest ==
  /\ handled # <<>>
  /\ handled[Len(handled)] = <<"PROCESS_START">>
  /\ is_running
  /\ \E row \in tests : row.id = current_test_id
  /\ data_points # <<>>
  /\ min_voltage = 1

\* the number of entries get_test_data returns for a test
SampleCount(points, test_id) ==
  Len(CHOOSE listing \in get_test_data(points, test_id) : TRUE)

\* every listing of a test has the same length, is in non-decreasing order of
\* time and holds only samples logged under that test
ListingsInOrder ==
  \A test_id \in 1..MaxStoreTests :
    \A listing \in get_test_data(db_data_points, test_id) :
      /\ Len(listing) = SampleCount(db_data_points, test_id)
      /\ \A i \in 1..(Len(listing) - 1) : listing[i][1] <= listing[i + 1][1]
      /\ \A i \in 1..Len(listing) : listing[i][2] = test_id

\* a call of log_data_point either stores nothing or adds exactly one entry,
\* the sample logged, to the listing of the current test and leaves the
\* listing of every other test alone; calls that delete no test leave every
\* listing alone
EachAppendAddsOneEntry ==
  /\ called'.method = "log_data_point" =>
       \/ store' = store
       \/ /\ SampleCount(db_data_points', dh_current_test_id) =
               SampleCount(db_data_points, dh_current_test_id) + 1
          /\ \A listing \in get_test_data(db_data_points', dh_current_test_id) :
               \E i \in 1..Len(listing) :
                 listing[i] = <<int(called'.argument) \div 1000,
                                dh_current_test_id, 1>>
          /\ \A test_id \in 1..MaxStoreTests :
               test_id # dh_current_test_id =>
                 get_test_data(db_data_points', test_id) =
                   get_test_data(db_data_points, test_id)
  /\ called'.method \notin {"log_data_point", "delete_test"} =>
       \A test_id \in 1..MaxStoreTests :
         get_test_data(db_data_points', test_id) =
           get_test_data(db_data_points, test_id)

SampleLine(data) ==
  /\ data[1] = "DATA"
  /\ Len(data) \in {4, 6}
  /\ int_ok(data[2])
  /\ \A i \in 3..Len(data) : float_ok(data[i])

\* C23: a DATA line in either wire form, handled while a test is running,
\* joins the sample list with its time, voltage and current, and the minimum
\* voltage afterwards is no greater than its voltage unless it is the
\* sentinel 0.
C23_BothWireFormsAreSamples ==
  [][ \A data \in DataLines :
        SampleLine(data) /\ is_running /\ handle_serial_data(data) =>
          /\ data_points' = Append(data_points,
               <<int(data[2]) \div 1000, float(data[3]), float(data[4])>>)
          /\ min_voltage' = 0 \/ min_voltage' <= float(data[3]) ]_vars

\* the step handles the end of a running test whose row is stored while the
\* pass/fail voltage entry holds a text that is not a number (first revision)
EndsWithBadThreshold ==
  /\ is_running
  /\ \E row \in tests : row.id = current_test_id
  /\ ~float_ok(pass_fail_voltage_var)
  /\ \E data \in EndLines : handle_serial_data_r1(data)

\* C24: when PROCESS_END arrives while the threshold entry does not parse, the
\* row of the current test receives a result that ends in ERROR and the
\* minimum voltage, the current-test pointer is cleared and the session is no
\* longer running.
C24_BadThresholdFinalizesWithError ==
  [][ EndsWithBadThreshold =>
        /\ \E row \in tests' :
             /\ row.id = current_test_id
             /\ row.result # NULL
             /\ row.result[1][Len(row.result[1])] = "ERROR"
             /\ row.min_voltage = Some(min_voltage)
        /\ current_test_id' = None
        /\ is_running' = FALSE ]_vars

\* C25: every result written is "<phase> - <PASS|FAIL|ERROR>" with the phase
\* of the begin that created the test.  The row does not store the phase; it
\* stores the duration, and the depassivation entry reads 180 throughout
\* while the baseline entry, which the other two phases use, never does: a
\* row was created by a Depassivation Cycle begin exactly when its duration
\* is 180.
C25_ResultNamesThePhaseOfItsBegin ==
  \A row \in tests :
    row.result # NULL =>
      LET result == row.result[1] IN
        /\ Len(result) = 3
        /\ result[1] \in TestNames
        /\ result[2] = " - "
        /\ result[3] \in {"PASS", "FAIL", "ERROR"}
        /\ result[1] = DepassivationCycle <=> row.duration = Some(180)

\* the listings the query behind an entry of the history list may return
HistoryListings(name) ==
  IF name = Uncategorized THEN get_uncategorized_tests(tests)
  ELSE UNION { get_tests_for_battery(tests, b.id) :
               b \in { x \in batteries : x.name = name } }

\* the greedy reference scan from cursor i: the ids of the tests each emitted
\* item spans.  Three tests typed Baseline, Depassivation, Check make a
\* Sequence; with parse_matters, only if the timestamps of the last two and
\* the duration of the second parse
RECURSIVE GreedyScan(_, _, _)
GreedyScan(twt, i, parse_matters) ==
  IF i > Len(twt) THEN <<>>
  ELSE IF /\ i + 2 <= Len(twt)
          /\ <<twt[i].type, twt[i + 1].type, twt[i + 2].type>> =
               <<"Baseline", "Depassivation", "Check">>
          /\ parse_matters =>
               /\ strptime_ok(twt[i + 1].timestamp)
               /\ strptime_ok(twt[i + 2].timestamp)
               /\ twt[i + 1].duration # NULL
       THEN << <<twt[i].id, twt[i + 1].id, twt[i + 2].id>> >>
            \o GreedyScan(twt, i + 3, parse_matters)
       ELSE << <<twt[i].id>> >> \o GreedyScan(twt, i + 1, parse_matters)

\* the ids of the tests each item of a tree spans, the three tests of a
\* Sequence taken from the sequence map
SpannedBy(tree, sequences) ==
  [k \in 1..Len(tree) |->
     IF tree[k].type = "Sequence"
     THEN LET info == CHOOSE s \in sequences : s.master_id = tree[k].id
          IN <<info.baseline.id, info.depassivation.id, info.check.id>>
     ELSE <<tree[k].id>>]

\* the view a selection of the history list builds, when it is built, is the
\* greedy scan of a listing of the selected entry: the same items in the
\* same order, each test in one item, n - 2 * (number of sequences) items
ViewIsGreedyScan(parse_matters) ==
  \A name \in {Uncategorized} \cup { b.name : b \in batteries } :
    select_history_battery(name) /\ outcome' = Returned =>
      \E listing \in HistoryListings(name) :
        /\ \A k \in 1..Len(history_tree') :
             history_tree'[k].type = "Sequence" =>
               \E s \in current_history_sequences' :
                 s.master_id = history_tree'[k].id
        /\ SpannedBy(history_tree', current_history_sequences') =
             GreedyScan(tests_with_type(listing), 1, parse_matters)
        /\ Len(history_tree') =
             Len(listing) - 2 * Cardinality(current_history_sequences')

RestTimeText(total_seconds) ==
  LET hours == total_seconds \div 3600
      minutes == (total_seconds % 3600) \div 60
      seconds == total_seconds % 60
  IN (IF hours > 0 THEN <<ToString(hours), "h ">> ELSE <<>>)
     \o (IF hours > 0 \/ minutes > 0 THEN <<ToString(minutes), "m ">> ELSE <<>>)
     \o <<ToString(seconds), "s">>

RECURSIVE Concat(_)
Concat(spans) ==
  IF spans = <<>> THEN <<>> ELSE Head(spans) \o Concat(Tail(spans))

\* three tests typed Baseline, Depassivation, Check from position i on
TypedTriple(twt, i) ==
  /\ i + 2 <= Len(twt)
  /\ <<twt[i].type, twt[i + 1].type, twt[i + 2].type>> =
       <<"Baseline", "Depassivation", "Check">>

\* a timestamp or the duration of the triple at i does not parse; the
\* timestamp of the Baseline test counts only with_baseline
ParseTrouble(twt, i, with_baseline) ==
  \/ with_baseline /\ ~strptime_ok(twt[i].timestamp)
  \/ ~strptime_ok(twt[i + 1].timestamp)
  \/ ~strptime_ok(twt[i + 2].timestamp)
  \/ twt[i + 1].duration = NULL

\* when the view is built from a listing, every typed triple of the listing
\* with parse trouble is shown as three standalone items in order, and the
\* sequence map has no entry under the Baseline test
TroubledTriplesStandAlone(with_baseline) ==
  \A name \in {Uncategorized} \cup { b.name : b \in batteries } :
    select_history_battery(name) /\ outcome' = Returned =>
      \A listing \in HistoryListings(name) :
        [k \in 1..Len(listing) |-> listing[k].id] =
            Concat(SpannedBy(history_tree', current_history_sequences')) =>
          LET twt == tests_with_type(listing) IN
            \A i \in 1..Len(twt) :
              TypedTriple(twt, i) /\ ParseTrouble(twt, i, with_baseline) =>
                /\ \E k \in 1..(Len(history_tree') - 2) :
                     \A j \in 0..2 :
                       /\ history_tree'[k + j].id = twt[i + j].id
                       /\ history_tree'[k + j].type = twt[i + j].type
                /\ \A s \in current_history_sequences' :
                     s.master_id # twt[i].id

Currents == { data_points[i][3] : i \in 1..Len(data_points) }

\* C29: the maximum current written to a test's row at finalization is the
\* greatest current of the valid samples received for the test, also when
\* the first sample reads zero or below.
C29_MaxCurrentIsTrueMaximum ==
  [][ \A row \in tests' \ tests :
        (Finalized(row) /\ row.max_current # NULL /\ data_points # <<>>) =>
          /\ row.max_current[1] \in Currents
          /\ \A c \in Currents : c <= row.max_current[1] ]_vars

\* the lines of a sequence that are not blank, in order
NonBlank(lines) == SelectSeq(lines, LAMBDA line : line # Blank)

\* C30 as stated: the lines the receive loop read are handled by
\* handle_serial_data in the order they were read, each exactly once, none
\* merged or skipped.
C30_EveryLineReadIsHandledInOrder ==
  /\ [](handled \o after_queue = lines_read)
  /\ \A n \in 1..MaxWritten :
       (Len(lines_read) >= n) ~> (Len(handled) >= n)

\* C30 amended: the lines the receive loop read that are not blank after
\* stripping are handled by handle_serial_data in the order they were read,
\* each exactly once, none merged or skipped.
C30_EveryNonBlankLineIsHandledInOrder ==
  /\ [](handled \o after_queue = NonBlank(lines_read))
  /\ \A n \in 1..MaxWritten :
       (Len(NonBlank(lines_read)) >= n) ~> (Len(handled) >= n)

\* C30 witness: a blank line was read, then two different lines, and the two
\* were handled in the order they were read
C30_TwoLinesHandledAfterBlank ==
  /\ Len(lines_read) = 3
  /\ lines_read[1] = Blank
  /\ lines_read[2] # lines_read[3]
  /\ handled = <<lines_read[2], lines_read[3]>>

\* C33: the test id the store writes samples and results under is the
\* session's current test id, and both are unset when no test is current.
C33_StoreUsesSessionsCurrentTest ==
  dh_current_test_id = current_test_id

LiveExtrema == <<live_min_voltage, live_max_current, live_min_resistance,
                 live_max_resistance>>

\* C34: switching the load on unsets the live extrema, a LIVE_DATA line
\* handled with the load off leaves them as they were, and with the load on
\* the live minimum voltage is the least voltage of the readings taken since
\* the load was last switched on.
C34_LiveMinimumIsMinimumUnderLoad ==
  /\ [][ (toggle_mosfet /\ mosfet_on') => LiveExtrema' = <<0, 0, 0, 0>> ]_vars
  /\ [][ (HandlesLiveData /\ ~mosfet_on) => LiveExtrema' = LiveExtrema ]_vars
  /\ [](( mosfet_on /\ live_voltages # {} ) =>
          /\ live_min_voltage \in live_voltages
          /\ \A v \in live_voltages : live_min_voltage <= v)

\* ---------------------------------------------------------------------
\* The DataHandler of the first revision (src/data_handler.py), its methods
\* called directly.  _get_db_cursor opens each connection without
\* PRAGMA foreign_keys, so the connection enforces the REFERENCES clause of
\* data_points only where the SQLite library was compiled to enforce it by
\* default: foreign_keys is that default.
\* ---------------------------------------------------------------------
\* INSERT INTO tests (timestamp, duration, pass_fail_voltage)
DataHandler_r1_create_new_test(duration, pass_fail_voltage) ==
  /\ called' = Call("create_new_test", ToString(duration))
  /\ \E db \in DbOutcomes, t \in clock_readings(tests) :
       IF db = ExecuteFailed
       THEN /\ outcome' = Returned
            /\ UNCHANGED store
       ELSE /\ outcome' = ToString(tests_seq + 1)
            /\ dh_current_test_id' = tests_seq + 1
            /\ IF db = Committed
               THEN /\ tests' = tests \cup
                          {TestRow_r1(tests_seq + 1, t, duration,
                                      pass_fail_voltage)}
                    /\ tests_seq' = tests_seq + 1
               ELSE UNCHANGED <<tests, tests_seq>>
            /\ UNCHANGED <<batteries, batteries_seq, db_data_points,
                           data_points_seq>>
  /\ sent' = <<>>
  /\ dialog' = ""
  /\ UNCHANGED <<gui, live>>

\* INSERT INTO data_points under the handler's current test id
DataHandler_r1_log_data_point(timestamp_ms, voltage, current) ==
  /\ called' = Call("log_data_point", ToString(timestamp_ms))
  /\ \E db_ok, foreign_keys \in BOOLEAN :
       /\ db_data_points' =
            log_data_point(db_data_points, data_points_seq, dh_current_test_id,
                           timestamp_ms, voltage, current,
                           /\ db_ok
                           /\ foreign_keys =>
                                \E row \in tests : row.id = dh_current_test_id)
       /\ data_points_seq' = IF db_data_points' # db_data_points
                             THEN data_points_seq + 1 ELSE data_points_seq
  /\ outcome' = Returned
  /\ sent' = <<>>
  /\ dialog' = ""
  /\ UNCHANGED <<dh_current_test_id, batteries, tests, batteries_seq, tests_seq,
                 gui, live>>

\* DELETE FROM tests WHERE id = ?; the data points go with the test only on
\* a connection that enforces foreign keys
DataHandler_r1_delete_test(test_id) ==
  /\ called' = Call("delete_test", ToString(test_id))
  /\ IF test_id = None
     THEN /\ outcome' = False
          /\ UNCHANGED store
     ELSE \E db \in DbOutcomes, foreign_keys \in BOOLEAN :
            LET rowcount == Cardinality({ row \in tests : row.id = test_id })
            IN /\ outcome' = IF db # ExecuteFailed /\ rowcount > 0
                             THEN True ELSE False
               /\ IF db = Committed
                  THEN /\ tests' = delete_test_rows(tests, test_id)
                       /\ db_data_points' =
                            IF foreign_keys
                            THEN delete_test_cascade(db_data_points, test_id)
                            ELSE db_data_points
                  ELSE UNCHANGED <<tests, db_data_points>>
               /\ UNCHANGED <<dh_current_test_id, batteries, batteries_seq,
                              tests_seq, data_points_seq>>
  /\ sent' = <<>>
  /\ dialog' = ""
  /\ UNCHANGED <<gui, live>>

Next_store_r1 ==
  \/ tests_seq < MaxStoreTests /\ DataHandler_r1_create_new_test(10, 2)
  \/ \E timestamp_ms \in TimestampsMs, voltage \in {1, 2} :
       /\ data_points_seq < MaxStorePoints
       /\ DataHandler_r1_log_data_point(timestamp_ms, voltage, 1)
  \/ \E test_id \in TestIds : DataHandler_r1_delete_test(test_id)

Spec_store_r1 == Init_r1 /\ [][Next_store_r1]_vars

\* C38: in the first revision of the store no data point row names a test
\* that has no row in the tests table, after any creations of tests, appends
\* of samples and deletions of tests.
C38_NoDataPointWithoutItsTest ==
  \A point \in db_data_points : \E row \in tests : row.id = point.test_id

\* ---------------------------------------------------------------------
\* Simulation mode: src/GUI/Depassivation-GUI/gui.py constructed with
\* simulate=True, over SimulationHandler and the DataHandler of
\* src/data_handler.py.  The callbacks of the control thread are atomic; a
\* thread takes one step per statement that reads or writes something another
\* thread can see.
\* ---------------------------------------------------------------------
MaxSimRuns == 2       \* Spec_sim: accepted presses of the start button
MaxThreadRuns == 1    \* Spec_sim_threads: accepted presses of the start button
SimDuration == "1"    \* the duration entry, in seconds
SimVoltage == "3"     \* the voltage field of a simulated sample
ElapsedMs == {0, 1000}   \* readings of time_elapsed_ms

\* app.log_message(message)
log_message(area, message) == area \cup {message}

\* the thread start() creates, before its first statement
SimulationThread(duration_sec) ==
  [pc |-> "log_message", time_elapsed_ms |-> 0, slept |-> FALSE,
   duration_sec |-> duration_sec, posted |-> <<>>]

\* SimulationHandler.start: nothing while is_running, else a new thread
SimulationHandler_start(duration_sec) ==
  IF sim_is_running
  THEN UNCHANGED <<sim_is_running, sim_threads>>
  ELSE /\ sim_is_running' = TRUE
       /\ sim_threads' = Append(sim_threads, SimulationThread(duration_sec))

\* the operator presses the start button
start_process_r2 ==
  /\ start_button
  /\ UNCHANGED <<pass_fail_voltage_var, db_data_points, data_points_seq,
                 connected, duration_var, later, channel, progressbar,
                 called, live>>
  /\ sent' = <<>>
  /\ outcome' = Returned
  /\ dialog' = ""
  /\ IF \/ ~int_ok(duration_var) \/ ~float_ok(pass_fail_voltage_var)
        \/ int(duration_var) <= 0 \/ float(pass_fail_voltage_var) <= 0
     THEN UNCHANGED <<data_points, min_voltage, session, abort_button,
                      dh_current_test_id, tests, tests_seq, start_button,
                      sim_is_running, sim_threads, progress_threads, log_area>>
     ELSE
       \* clear_graph_and_stats
       /\ data_points' = <<>>
       /\ min_voltage' = 0
       /\ last_completed_test_id' = None
       /\ \E db \in DbOutcomes, t \in clock_readings(tests) :
            IF db # ExecuteFailed
            THEN /\ IF db = Committed
                    THEN /\ tests' = tests \cup
                               {TestRow_r1(tests_seq + 1, t, int(duration_var),
                                           float(pass_fail_voltage_var))}
                         /\ tests_seq' = tests_seq + 1
                         /\ log_area' = log_message(log_area,
                                          "INFO: Started new test with ID")
                    ELSE /\ UNCHANGED <<tests, tests_seq>>
                         /\ log_area' = log_message(
                              log_message(log_area,
                                          "INFO: Started new test with ID"),
                              "ERROR: Database error")
                 /\ dh_current_test_id' = tests_seq + 1
                 /\ current_test_id' = tests_seq + 1
                 /\ is_running' = TRUE
                 /\ start_button' = FALSE
                 /\ abort_button' = TRUE
                 /\ progress_threads' = Append(progress_threads, "maximum")
                 /\ SimulationHandler_start(int(duration_var))
            ELSE /\ current_test_id' = None
                 /\ log_area' = log_message(
                      log_message(log_area, "ERROR: Database error"),
                      "ERROR: Could not start test, database error.")
                 /\ UNCHANGED <<tests, tests_seq, dh_current_test_id,
                                start_button, abort_button, is_running,
                                sim_is_running, sim_threads, progress_threads>>

\* the operator presses the abort button; SimulationHandler.abort clears
\* is_running and logs
abort_process_r2 ==
  /\ abort_button
  /\ IF is_running
     THEN /\ is_running' = FALSE
          /\ abort_button' = FALSE
          /\ start_button' = TRUE
          /\ sim_is_running' = FALSE
          /\ log_area' = log_message(log_area,
                                     "INFO: Simulation aborted by user.")
     ELSE UNCHANGED <<is_running, abort_button, start_button, sim_is_running,
                      log_area>>
  /\ returns(<<>>, Returned, "")
  /\ UNCHANGED <<data_points, min_voltage, current_test_id,
                 last_completed_test_id, pass_fail_voltage_var,
                 dh_current_test_id, tests, db_data_points, tests_seq,
                 data_points_seq, connected, duration_var, later, channel,
                 sim_threads, progress_threads, progressbar>>

\* populate_history_list: the rows of get_all_tests_summary, newest first
populate_history_list(rows) ==
  { [i \in 1..Len(q) |->
       <<q[i].id, q[i].timestamp,
         IF q[i].result = NULL THEN "Incompleto" ELSE q[i].result[1]>>] :
    q \in OrderedDesc(rows) }

later_r2 == <<max_current, power, resistance, selected_battery_id, cycle_label,
              baseline_duration_var, depassivation_duration_var,
              selected_battery_var, buttons, history_selection,
              current_history_sequences, batteries, batteries_seq>>

handle_PROCESS_END_r2 ==
  /\ is_running' = FALSE
  /\ start_button' = TRUE
  /\ abort_button' = FALSE
  /\ IF current_test_id # None
     THEN LET result == IF float_ok(pass_fail_voltage_var)
                        THEN (IF min_voltage >= float(pass_fail_voltage_var)
                              THEN "PASS" ELSE "FAIL")
                        ELSE "N/A"
          IN /\ \E db_ok \in BOOLEAN :
                  /\ tests' = update_test_result_r1(tests, dh_current_test_id,
                                min_voltage, <<result>>, db_ok)
                  /\ log_area' =
                       LET shown == log_message(
                                      log_message(log_area, "ESP32/SIM: "),
                                      "INFO: Carregado testes no histórico.")
                       IN IF db_ok THEN shown
                          ELSE log_message(shown, "ERROR: Database error")
             /\ last_completed_test_id' = current_test_id
             /\ current_test_id' = None
             /\ history_tree' \in populate_history_list(tests')
     ELSE /\ log_area' = log_message(log_area, "ESP32/SIM: ")
          /\ UNCHANGED <<tests, last_completed_test_id, current_test_id,
                         history_tree>>
  /\ returns(<<>>, Returned, "")
  /\ UNCHANGED <<data_points, min_voltage, pass_fail_voltage_var,
                 dh_current_test_id, db_data_points, tests_seq,
                 data_points_seq, connected, duration_var, later_r2>>

\* handle_serial_data of the simulation-mode revision: every line but a
\* sample is logged; the branches are those of the first revision, and the
\* end of a test refreshes the history list
handle_serial_data_r2(data) ==
  IF startswith(data, "PROCESS_END") THEN handle_PROCESS_END_r2
  ELSE IF startswith(data, "DATA,")
  THEN /\ handle_DATA_r1(data)
       /\ log_area' =
            IF ~data_parses_r1(data)
            THEN log_message(log_area, "ERROR: Falha ao processar dados")
            ELSE IF dh_current_test_id # None /\ db_data_points' = db_data_points
            THEN log_message(log_area, "ERROR: Database error")
            ELSE log_area
  ELSE /\ handle_unrecognized_r1
       /\ log_area' = log_message(log_area, "ESP32/SIM: ")

\* the event loop runs the callback at the head of the queue
run_callback_r2 ==
  /\ after_queue # <<>>
  /\ handle_serial_data_r2(Head(after_queue))
  /\ after_queue' = Tail(after_queue)
  /\ handled' = Append(handled, Head(after_queue))
  /\ UNCHANGED <<in_waiting, lines_read, sim_is_running, sim_threads,
                 progress_threads, progressbar>>

\* the line posted twice over
post_twice(th, line, pc) ==
  /\ after_queue' = root_after(root_after(after_queue, line), line)
  /\ sim_threads' = [sim_threads EXCEPT
                       ![th].posted = Append(Append(@, line), line),
                       ![th].pc = pc]

\* thread th posts a line, root.after(0, handle_serial_data, line), and goes
\* on at pc; posted is the lines the thread has posted
post(th, line, pc) ==
  /\ after_queue' = root_after(after_queue, line)
  /\ sim_threads' = [sim_threads EXCEPT
                       ![th].posted = Append(@, line), ![th].pc = pc]

\* f"DATA,{time_elapsed_ms},{voltage:.3f},{current:.1f}"
DataLine(ms) == <<"DATA", ToString(ms), SimVoltage, ValidCurrent>>

\* one statement of SimulationHandler._run_simulation in thread th
_run_simulation(th) ==
  LET self == sim_threads[th]
      goto(pc) == sim_threads' = [sim_threads EXCEPT ![th].pc = pc]
  IN /\ self.pc # "return"
     /\ UNCHANGED <<control, in_waiting, lines_read, handled,
                    progress_threads, progressbar>>
     /\ CASE self.pc = "log_message" ->
               \* line 36, called in this thread
               /\ log_area' = log_message(log_area,
                                "INFO: Starting hardware simulation...")
               /\ goto("PROCESS_START")
               /\ UNCHANGED <<sim_is_running, after_queue>>
          [] self.pc = "PROCESS_START" ->
               /\ post(th, <<"PROCESS_START">>, "while")
               /\ UNCHANGED <<sim_is_running, log_area>>
          [] self.pc = "while" ->
               /\ IF /\ sim_is_running
                     /\ self.time_elapsed_ms < self.duration_sec * 1000
                  THEN goto("DATA") ELSE goto("if")
               /\ UNCHANGED <<sim_is_running, log_area, after_queue>>
          [] self.pc = "DATA" ->
               \* the clock is read, the sample is posted, the thread sleeps
               \* for a second
               \E ms \in ElapsedMs :
                 /\ self.slept => ms >= self.time_elapsed_ms + 1000
                 /\ after_queue' = root_after(after_queue, DataLine(ms))
                 /\ sim_threads' = [sim_threads EXCEPT
                                      ![th].time_elapsed_ms = ms,
                                      ![th].slept = TRUE,
                                      ![th].posted = Append(@, DataLine(ms)),
                                      ![th].pc = "while"]
                 /\ UNCHANGED <<sim_is_running, log_area>>
          [] self.pc = "if" ->
               /\ post(th, IF sim_is_running
                           THEN <<"PROCESS_END: Simulation completed successfully.">>
                           ELSE <<"PROCESS_END: Simulation aborted by user.">>,
                       "is_running = False")
               /\ UNCHANGED <<sim_is_running, log_area>>
          [] self.pc = "is_running = False" ->
               /\ sim_is_running' = FALSE
               /\ goto("return")
               /\ UNCHANGED <<log_area, after_queue>>

\* one statement of DepassivationApp._update_progressbar in thread th: the
\* bar is set up, follows the clock while the application's is_running holds
\* and the duration has not passed, and is reset
_update_progressbar(th) ==
  /\ progress_threads[th] # "return"
  /\ UNCHANGED <<control, channel, sim_is_running, sim_threads, log_area>>
  /\ CASE progress_threads[th] = "maximum" ->
            /\ progressbar' = 0
            /\ progress_threads' = [progress_threads EXCEPT ![th] = "while"]
       [] progress_threads[th] = "while" ->
            \E passed \in BOOLEAN :
              IF is_running /\ ~passed
              THEN /\ progressbar' = 1
                   /\ progressbar # 1
                   /\ UNCHANGED progress_threads
              ELSE /\ progressbar' = 0
                   /\ progress_threads' =
                        [progress_threads EXCEPT ![th] = "return"]

\* the application as constructed with simulate=True over an empty database
Init_sim ==
  /\ is_running = FALSE
  /\ current_test_id = None
  /\ last_completed_test_id = None
  /\ selected_battery_id = None
  /\ data_points = <<>>
  /\ min_voltage = 0
  /\ max_current = 0
  /\ power = 0
  /\ resistance = 0
  /\ cycle_label = <<CyclePrefix, "--">>
  /\ pass_fail_voltage_var = "2"
  /\ baseline_duration_var = "10"
  /\ depassivation_duration_var = "180"
  /\ selected_battery_var = ""
  /\ baseline_button = FALSE
  /\ depassivation_button = FALSE
  /\ check_button = FALSE
  /\ abort_button = FALSE
  /\ history_selection = ""
  /\ history_tree = <<>>
  /\ current_history_sequences = {}
  /\ dh_current_test_id = None
  /\ batteries = {}
  /\ batteries_seq = 0
  /\ tests = {}
  /\ db_data_points = {}
  /\ tests_seq = 0
  /\ data_points_seq = 0
  /\ connected = FALSE
  /\ sent = <<>>
  /\ start_button = TRUE
  /\ duration_var = SimDuration
  /\ outcome = Returned
  /\ dialog = ""
  /\ called = NoCall
  /\ mosfet_on = FALSE
  /\ live_min_voltage = 0
  /\ live_max_current = 0
  /\ live_min_resistance = 0
  /\ live_max_resistance = 0
  /\ live_voltages = {}
  /\ channel_idle
  /\ background_idle

\* the database takes every statement of the step: nothing is logged about it
Committed_r2 == "ERROR: Database error" \notin log_area'

\* simulation mode with the progress-bar threads left where they start: they
\* read is_running and write only the progress bar
Next_sim ==
  \/ Len(progress_threads) < MaxSimRuns /\ start_process_r2 /\ Committed_r2
  \/ abort_process_r2
  \/ run_callback_r2 /\ Committed_r2
  \/ \E th \in 1..Len(sim_threads) : _run_simulation(th)

Spec_sim == Init_sim /\ [][Next_sim]_vars

\* every simulation thread that has a statement to run runs it in the end
Spec_sim_fair ==
  Spec_sim /\ \A th \in 1..MaxSimRuns :
                WF_vars(th <= Len(sim_threads) /\ _run_simulation(th))

\* simulation mode with every thread followed, over one press of the start
\* button
Next_sim_threads ==
  \/ Len(progress_threads) < MaxThreadRuns /\ start_process_r2 /\ Committed_r2
  \/ abort_process_r2
  \/ run_callback_r2 /\ Committed_r2
  \/ \E th \in 1..Len(sim_threads) : _run_simulation(th)
  \/ \E th \in 1..Len(progress_threads) : _update_progressbar(th)

Spec_sim_threads == Init_sim /\ [][Next_sim_threads]_vars

\* a background thread runs one of its statements
BackgroundStep ==
  \/ \E th \in 1..Len(sim_threads) : _run_simulation(th)
  \/ \E th \in 1..Len(progress_threads) : _update_progressbar(th)

\* C31: no statement a background thread runs changes the state of the
\* application, the log widget and the progress bar included: every change
\* is made by a callback of the control thread.
C31_BackgroundThreadsLeaveTheApplicationAlone ==
  [][ BackgroundStep =>
        UNCHANGED <<control, log_area, progressbar>> ]_vars

\* C32: of two samples stored for the same test, the one inserted later has
\* no smaller millisecond timestamp, whatever the interleaving of start,
\* abort, a second start and the lines of the simulation still in flight.
C32_StoredSamplesOfATestInTimeOrder ==
  \A p, q \in db_data_points :
    (p.test_id = q.test_id /\ p.id < q.id) => p.timestamp_ms <= q.timestamp_ms

\* the lines a simulation thread has posted end its run at most once, and
\* with its last line; a thread past line 73 has posted the end of its run
AnnouncesItsEndOnce(thread) ==
  /\ \A i \in 1..Len(thread.posted) :
       startswith(thread.posted[i], "PROCESS_END") => i = Len(thread.posted)
  /\ thread.pc \in {"is_running = False", "return"} =>
       /\ thread.posted # <<>>
       /\ startswith(thread.posted[Len(thread.posted)], "PROCESS_END")

\* C35: every simulation thread start() has started comes to its end, having
\* posted exactly one PROCESS_END line, after every DATA line it posted, and
\* it clears is_running as its last statement, whether or not abort() was
\* called.
C35_EverySimulationEndsAndSaysSo ==
  /\ [](\A th \in 1..Len(sim_threads) : AnnouncesItsEndOnce(sim_threads[th]))
  /\ [][ \A th \in 1..Len(sim_threads) :
           (sim_threads[th].pc # "return" /\ sim_threads'[th].pc = "return")
             => ~sim_is_running' ]_vars
  /\ \A th \in 1..MaxSimRuns :
       (th <= Len(sim_threads)) ~>
         (th <= Len(sim_threads) /\ sim_threads[th].pc = "return")

\* C35 witness: a thread has returned whose run was aborted after it posted
\* a sample, and another has returned whose run reached its duration
C35_AbortedAndCompletedRunsEnded ==
  \E th, other \in 1..Len(sim_threads) :
    /\ sim_threads[th].pc = "return"
    /\ sim_threads[other].pc = "return"
    /\ \E i \in 1..Len(sim_threads[th].posted) :
         sim_threads[th].posted[i][1] = "DATA"
    /\ sim_threads[th].posted[Len(sim_threads[th].posted)] =
         <<"PROCESS_END: Simulation aborted by user.">>
    /\ sim_threads[other].posted[Len(sim_threads[other].posted)] =
         <<"PROCESS_END: Simulation completed successfully.">>

\* thread th runs a statement in this step
Runs(th) == sim_threads'[th] # sim_threads[th]

\* C36: start() while a simulation is running starts nothing, and once a
\* later start() has started a new thread, the thread of an earlier run
\* posts no further DATA line and does not change is_running.
C36_OnlyTheNewestThreadProduces ==
  /\ [][ (start_process_r2 /\ sim_is_running) =>
           UNCHANGED <<sim_is_running, sim_threads>> ]_vars
  /\ [][ \A th \in 1..(Len(sim_threads) - 1) :
           Runs(th) =>
             /\ sim_threads[th].pc # "DATA"
             /\ sim_is_running' = sim_is_running ]_vars

\* what the device writes in the two-run channel
RunWireLines ==
  { WireLine(fields, "\r\n") :
      fields \in { <<"DATA", ValidTime, "1", ValidCurrent, ValidPower,
                     ValidResistance>>,
                   <<"PROCESS_END">> } }

\* the serial channel over a session of MaxRuns tests.  The device's
\* writes are followed up to the begin of the last test, so that every
\* line still in flight when the last test has begun belongs to an
\* earlier run.
Next_channel_runs ==
  \/ \E b \in batteries : select_battery(b.name)
  \/ toggle_connection
  \/ tests_seq < MaxRuns /\ start_baseline_test
  \/ abort_process
  \/ \E wire \in RunWireLines : tests_seq < MaxRuns /\ device_writes(wire)
  \/ read_from_serial
  \/ run_callback

Spec_channel_runs == Init /\ [][Next_channel_runs]_vars

\* the last test of the session is running; the lines in flight are
\* older than its begin
LastTestRuns == tests_seq = MaxRuns /\ is_running /\ current_test_id = tests_seq

\* C37: a PROCESS_END that was in flight when a new test was begun (the
\* terminal message of an earlier, aborted run) leaves the new test
\* running and writes nothing into the stored tests.
C37_LateEndLeavesTheNewTestAlone ==
  [][ ( /\ LastTestRuns
        /\ after_queue # <<>>
        /\ startswith(Head(after_queue), "PROCESS_END")
        /\ after_queue' = Tail(after_queue) )
      => (is_running' /\ tests' = tests) ]_vars

====
